---- MODULE Spec2Model ----
(***************************************************************************)
(* rust-websocket: the frame header codec (ws/util/header.rs), the frame   *)
(* parser (dataframe.rs), the message reassembly of the Receiver           *)
(* (client/receiver.rs, server/receiver.rs), the conversion of a frame     *)
(* vector into a message and back (message.rs, ws/receiver.rs) and the     *)
(* Sender (sender.rs, ws/sender.rs).                                       *)
(*                                                                         *)
(* Bytes are integers 0..255.  A u64 is kept at full width as four 16-bit  *)
(* limbs <<l3, l2, l1, l0>> (most significant first), so that lengths up   *)
(* to 2^64-1 are written and read exactly as the code does.                *)
(***************************************************************************)
EXTENDS Integers, Sequences, FiniteSets, TLC

VARIABLES
    \* ---- header codec harness (specification SpecHeader)
    hin,      \* the input: a DataFrameHeader to write, or forged bytes to read
    wres,     \* what write_header returned and wrote
    rres,     \* what read_header returned and where it left the reader
    hpc,      \* "input" | "written" | "read"
    \* ---- Receiver (specification Spec)
    side,     \* "client" | "server": which Receiver reads the stream
    wire,     \* bytes the peer wrote that the Receiver has not read yet
    closed,   \* the peer closed the transport (end of stream after wire)
    fault,    \* "" | the io::ErrorKind the transport fails with after wire
    buffer,   \* Receiver.buffer: the reassembly buffer
    pc,       \* "idle" | "first" | "loop": position inside recv_message
    frames,   \* what recv_message_dataframes returned to recv_message
    result,   \* what recv_message returned to the caller
    \* ---- history of what the peer wrote (read by the properties only)
    sent,     \* the frame the peer wrote last
    frags,    \* the data fragments of the message the peer is writing
    track,    \* the peer has kept to the framing since the Receiver was idle
    ctl,      \* the peer wrote a control frame between the fragments in frags
    \* ---- Sender (specification SpecSend)
    out,      \* the frames the Sender wrote to its writer, in order
    last,     \* the last call on the sending side, its input and what it returned
    \* ---- session (specification SpecSession)
    shut,     \* the directions of the transport that are shut down, and by which call
    peer_wrote, \* the frames the peer wrote, in order
    delivered, \* what the receive calls returned, in order
    sends,    \* the frames the send calls wrote, in order
    \* ---- opening handshake (specification SpecHandshake)
    request,  \* the handshake Request of the client
    response, \* the handshake Response built for it
    stream,   \* what was written to the stream when the response was sent
    \* ---- server connection (specification SpecServer)
    conn,     \* the accepted connection: where it is, its Response, what became of it
    \* ---- client upgrade (specification SpecUpgrade)
    hs,       \* the BufReader the handshake read through, and the Receiver built on it
    \* ---- Sec-WebSocket-Extensions (specification SpecExtensions)
    exts      \* the header text, what it parsed to and what that formats to

hvars == <<hin, wres, rres, hpc>>
rvars == <<side, fault, wire, closed, buffer, pc, frames, result, sent, frags, track, ctl>>
svars == <<out, last>>
xvars == <<shut, peer_wrote, delivered, sends>>
bvars == <<conn, hs, exts>>
kvars == <<request, response, stream, conn, hs, exts>>
vars ==
    <<hin, wres, rres, hpc, side, fault, wire, closed, buffer, pc, frames, result, sent, frags,
      track, ctl, out, last, shut, peer_wrote, delivered, sends, request, response,
      stream, conn, hs, exts>>

----------------------------------------------------------------------------
(* Bit operations on bytes, bit by bit. *)

RECURSIVE BitOp(_, _, _, _)
BitOp(op, a, b, n) ==
    IF n = 0 THEN 0
    ELSE LET x == a % 2
             y == b % 2
             bit == CASE op = "or"  -> IF x + y > 0 THEN 1 ELSE 0
                      [] op = "and" -> x * y
                      [] op = "xor" -> (x + y) % 2
         IN bit + 2 * BitOp(op, a \div 2, b \div 2, n - 1)

BitOr(a, b) == BitOp("or", a, b, 8)
BitAnd(a, b) == BitOp("and", a, b, 8)
BitXor(a, b) == BitOp("xor", a, b, 8)

(* The flag bits of the first header byte. *)
FIN == 128
RSV1 == 64
RSV2 == 32
RSV3 == 16

(* DataFrameFlags::from_bits_truncate: keeps the four flag bits. *)
from_bits_truncate(byte) == BitAnd(byte, 240)

(* flags.contains(f) *)
contains(flags, f) == BitAnd(flags, f) = f

----------------------------------------------------------------------------
(* u64 as four 16-bit limbs, most significant first. *)

U64Of(n) == <<0, 0, n \div 65536, n % 65536>>

(* len <= n and len >= n for a value n below 65536 *)
U64Leq(len, n) == len[1] = 0 /\ len[2] = 0 /\ len[3] = 0 /\ len[4] <= n
U64Geq(len, n) == ~(len[1] = 0 /\ len[2] = 0 /\ len[3] = 0 /\ len[4] < n)

(* `len as u16` and `len as u8`: the low bits. *)
AsU16(len) == len[4]
AsU8(len) == len[4] % 256

(* write_u16::<BigEndian> and write_u64::<BigEndian> *)
BE16(x) == <<x \div 256, x % 256>>
BE64(len) == BE16(len[1]) \o BE16(len[2]) \o BE16(len[3]) \o BE16(len[4])

(* read_u16::<BigEndian> and read_u64::<BigEndian> of the bytes at the front *)
ReadU16(bytes) == <<0, 0, 0, bytes[1] * 256 + bytes[2]>>
ReadU64(bytes) ==
    <<bytes[1] * 256 + bytes[2], bytes[3] * 256 + bytes[4],
      bytes[5] * 256 + bytes[6], bytes[7] * 256 + bytes[8]>>

Drop(s, n) == IF n >= Len(s) THEN <<>> ELSE SubSeq(s, n + 1, Len(s))
Take(s, n) == IF n >= Len(s) THEN s ELSE SubSeq(s, 1, n)

----------------------------------------------------------------------------
(* DataFrameHeader: flags (the bits), opcode (a u8), mask (<<>> for None,  *)
(* four bytes for Some), len (a u64).                                      *)

NoHeader == [flags |-> 0, opcode |-> 0, mask |-> <<>>, len |-> U64Of(0)]

WriteOk(bytes) == [ok |-> TRUE, err |-> "", bytes |-> bytes]
WriteErr(e) == [ok |-> FALSE, err |-> e, bytes |-> <<>>]

(* write_header with a fault: the MASK bit forgotten; the 16-bit form used *)
(* from 125 on.                                                            *)
write_header_nomaskbit(header) ==
    IF header.opcode > 15 THEN WriteErr("DataFrameError")
    ELSE IF header.opcode >= 8 /\ U64Geq(header.len, 126) THEN WriteErr("DataFrameError")
    ELSE WriteOk(
        <<BitOr(header.flags, header.opcode)>>
        \o <<IF U64Leq(header.len, 125) THEN AsU8(header.len)
             ELSE IF U64Leq(header.len, 65535) THEN 126 ELSE 127>>
        \o (IF U64Geq(header.len, 126) /\ U64Leq(header.len, 65535)
            THEN BE16(AsU16(header.len))
            ELSE IF ~U64Leq(header.len, 65535) THEN BE64(header.len) ELSE <<>>)
        \o header.mask)

write_header_ext125(header) ==
    IF header.opcode > 15 THEN WriteErr("DataFrameError")
    ELSE IF header.opcode >= 8 /\ U64Geq(header.len, 126) THEN WriteErr("DataFrameError")
    ELSE WriteOk(
        <<BitOr(header.flags, header.opcode)>>
        \o <<BitOr(IF header.mask # <<>> THEN 128 ELSE 0,
                   IF U64Leq(header.len, 124) THEN AsU8(header.len)
                   ELSE IF U64Leq(header.len, 65535) THEN 126 ELSE 127)>>
        \o (IF U64Geq(header.len, 125) /\ U64Leq(header.len, 65535)
            THEN BE16(AsU16(header.len))
            ELSE IF ~U64Leq(header.len, 65535) THEN BE64(header.len) ELSE <<>>)
        \o header.mask)

(* write_header: the error, or the bytes written to the writer. *)
write_header(header) ==
    IF header.opcode > 15 THEN WriteErr("DataFrameError")
    ELSE IF header.opcode >= 8 /\ U64Geq(header.len, 126) THEN WriteErr("DataFrameError")
    ELSE WriteOk(
        \* 'FIN', 'RSV1', 'RSV2', 'RSV3' and 'opcode'
        <<BitOr(header.flags, header.opcode)>>
        \* 'MASK' and 'Payload len'
        \o <<BitOr(IF header.mask # <<>> THEN 128 ELSE 0,
                   IF U64Leq(header.len, 125) THEN AsU8(header.len)
                   ELSE IF U64Leq(header.len, 65535) THEN 126 ELSE 127)>>
        \* 'Extended payload length'
        \o (IF U64Geq(header.len, 126) /\ U64Leq(header.len, 65535)
            THEN BE16(AsU16(header.len))
            ELSE IF ~U64Leq(header.len, 65535) THEN BE64(header.len) ELSE <<>>)
        \* 'Masking-key'
        \o header.mask)

ReadOk(h, rest) == [ok |-> TRUE, err |-> "", header |-> h, rest |-> rest]
ReadErr(e, rest) == [ok |-> FALSE, err |-> e, header |-> NoHeader, rest |-> rest]

(* The length field: what `match byte1 & 0x7F` yields, an error included,  *)
(* and the reader's position after it.  "Eof" is read_exact running out of *)
(* bytes (io::ErrorKind::UnexpectedEof).                                   *)
read_length(byte1, bytes) ==
    LET marker == BitAnd(byte1, 127) IN
    IF marker <= 125 THEN [err |-> "", len |-> U64Of(marker), rest |-> bytes]
    ELSE IF marker = 126 THEN
        IF Len(bytes) < 2 THEN [err |-> "Eof", len |-> U64Of(0), rest |-> <<>>]
        ELSE IF U64Leq(ReadU16(bytes), 125)
        THEN [err |-> "DataFrameError", len |-> U64Of(0), rest |-> Drop(bytes, 2)]
        ELSE [err |-> "", len |-> ReadU16(bytes), rest |-> Drop(bytes, 2)]
    ELSE
        IF Len(bytes) < 8 THEN [err |-> "Eof", len |-> U64Of(0), rest |-> <<>>]
        ELSE IF U64Leq(ReadU64(bytes), 65535)
        THEN [err |-> "DataFrameError", len |-> U64Of(0), rest |-> Drop(bytes, 8)]
        ELSE [err |-> "", len |-> ReadU64(bytes), rest |-> Drop(bytes, 8)]

(* read_header with a fault: the checks of a control frame dropped; the    *)
(* minimal form of the length not insisted on.                             *)
read_header_nocontrolcheck(bytes) ==
    IF Len(bytes) < 2 THEN ReadErr("Eof", <<>>)
    ELSE
    LET byte0 == bytes[1]
        byte1 == bytes[2]
        flags == from_bits_truncate(byte0)
        opcode == BitAnd(byte0, 15)
        l == read_length(byte1, Drop(bytes, 2))
    IN
    IF l.err # "" THEN ReadErr(l.err, l.rest)
    ELSE IF BitAnd(byte1, 128) = 128 THEN
        IF Len(l.rest) < 4 THEN ReadErr("Eof", <<>>)
        ELSE ReadOk([flags |-> flags, opcode |-> opcode,
                     mask |-> Take(l.rest, 4), len |-> l.len], Drop(l.rest, 4))
    ELSE ReadOk([flags |-> flags, opcode |-> opcode, mask |-> <<>>, len |-> l.len], l.rest)

read_header_minimal_unchecked(bytes) ==
    IF Len(bytes) < 2 THEN ReadErr("Eof", <<>>)
    ELSE
    LET byte0 == bytes[1]
        byte1 == bytes[2]
        flags == from_bits_truncate(byte0)
        opcode == BitAnd(byte0, 15)
        marker == BitAnd(byte1, 127)
        body == Drop(bytes, 2)
        need == IF marker = 126 THEN 2 ELSE IF marker = 127 THEN 8 ELSE 0
        len == IF marker = 126 THEN ReadU16(body)
               ELSE IF marker = 127 THEN ReadU64(body) ELSE U64Of(marker)
        rest == Drop(body, need)
    IN
    IF Len(body) < need THEN ReadErr("Eof", <<>>)
    ELSE IF opcode >= 8 /\ U64Geq(len, 126) THEN ReadErr("DataFrameError", rest)
    ELSE IF opcode >= 8 /\ ~contains(flags, FIN) THEN ReadErr("ProtocolError", rest)
    ELSE IF BitAnd(byte1, 128) = 128 THEN
        IF Len(rest) < 4 THEN ReadErr("Eof", <<>>)
        ELSE ReadOk([flags |-> flags, opcode |-> opcode,
                     mask |-> Take(rest, 4), len |-> len], Drop(rest, 4))
    ELSE ReadOk([flags |-> flags, opcode |-> opcode, mask |-> <<>>, len |-> len], rest)

(* read_header: the header or the error, and the bytes left in the reader. *)
read_header(bytes) ==
    IF Len(bytes) < 2 THEN ReadErr("Eof", <<>>)
    ELSE
    LET byte0 == bytes[1]
        byte1 == bytes[2]
        flags == from_bits_truncate(byte0)
        opcode == BitAnd(byte0, 15)
        l == read_length(byte1, Drop(bytes, 2))
    IN
    IF l.err # "" THEN ReadErr(l.err, l.rest)
    ELSE IF opcode >= 8 /\ U64Geq(l.len, 126) THEN ReadErr("DataFrameError", l.rest)
    ELSE IF opcode >= 8 /\ ~contains(flags, FIN) THEN ReadErr("ProtocolError", l.rest)
    ELSE IF BitAnd(byte1, 128) = 128 THEN
        IF Len(l.rest) < 4 THEN ReadErr("Eof", <<>>)
        ELSE ReadOk([flags |-> flags, opcode |-> opcode,
                     mask |-> Take(l.rest, 4), len |-> l.len], Drop(l.rest, 4))
    ELSE ReadOk([flags |-> flags, opcode |-> opcode, mask |-> <<>>, len |-> l.len], l.rest)

----------------------------------------------------------------------------
(* The header codec on its own: a header is written and read back, or      *)
(* forged header bytes are read.                                            *)

MaskKey == <<55, 250, 33, 61>>

HeaderFlags == {16 * k : k \in 0..15}
HeaderOpcodes == 0..16
HeaderMasks == {<<>>, MaskKey}
HeaderLens ==
    {U64Of(0), U64Of(1), U64Of(125), U64Of(126), U64Of(127), U64Of(65535), U64Of(65536),
     <<0, 1, 0, 0>>, <<32768, 0, 0, 0>>, <<65535, 65535, 65535, 65535>>}

Headers == [flags : HeaderFlags, opcode : HeaderOpcodes, mask : HeaderMasks, len : HeaderLens]

(* Forged header bytes: any first byte of the samples, any length field,   *)
(* minimal or not, the key if the MASK bit is set, then two payload bytes. *)
ForgedByte0 == {f + o : f \in {0, FIN, RSV1, FIN + RSV3}, o \in {0, 1, 2, 7, 8, 9, 15}}
ForgedLengths ==
    {<<m>> : m \in {0, 1, 125}}
    \cup {<<126>> \o BE16(x) : x \in {0, 125, 126, 65535}}
    \cup {<<127>> \o BE64(l) : l \in HeaderLens}
ForgedTail == <<170, 187>>

ForgedHeaders ==
    {<<b0, BitOr(IF k = <<>> THEN 0 ELSE 128, l[1])>> \o Drop(l, 1) \o k \o ForgedTail :
        b0 \in ForgedByte0, l \in ForgedLengths, k \in HeaderMasks}

NoWrite == WriteErr("none")
NoRead == ReadErr("none", <<>>)

HeaderInit ==
    /\ hin \in {[kind |-> "header", header |-> h, bytes |-> <<>>] : h \in Headers}
           \cup {[kind |-> "bytes", header |-> NoHeader, bytes |-> b] : b \in ForgedHeaders}
    /\ wres = NoWrite
    /\ rres = NoRead
    /\ hpc = "input"

(* write_header(&mut obtained, header) *)
WriteHeader ==
    /\ hpc = "input"
    /\ hin.kind = "header"
    /\ wres' = write_header(hin.header)
    /\ hpc' = "written"
    /\ UNCHANGED <<hin, rres>>

(* read_header(&mut &obtained[..]) on what write_header wrote *)
ReadWritten ==
    /\ hpc = "written"
    /\ wres.ok
    /\ rres' = read_header(wres.bytes)
    /\ hpc' = "read"
    /\ UNCHANGED <<hin, wres>>

(* read_header(&mut &header[..]) on bytes of the peer *)
ReadForged ==
    /\ hpc = "input"
    /\ hin.kind = "bytes"
    /\ rres' = read_header(hin.bytes)
    /\ hpc' = "read"
    /\ UNCHANGED <<hin, wres>>

----------------------------------------------------------------------------
(* Frames, messages and the frame parser.                                  *)
(* DataFrame: finished, reserved (three booleans), opcode, data.           *)

NoFrame == [finished |-> FALSE, reserved |-> <<FALSE, FALSE, FALSE>>, opcode |-> 0, data |-> <<>>]

FrameOk(f, rest) == [ok |-> TRUE, err |-> "", frame |-> f, rest |-> rest]
FrameErr(e, rest) == [ok |-> FALSE, err |-> e, frame |-> NoFrame, rest |-> rest]

(* From<io::Error> with a fault: every error kind becomes an IoError. *)
from_io_error_all(kind) == "IoError"

(* From<io::Error> for WebSocketError: what try! makes of a transport      *)
(* error.  An IoError carries the error it was made from.                  *)
from_io_error(kind) ==
    CASE kind = "UnexpectedEof" -> "NoDataAvailable"
      [] kind = "ConnectionReset" -> "IoError(ConnectionReset)"
      [] kind = "TimedOut" -> "IoError(TimedOut)"
      [] OTHER -> "IoError"

(* ws::util::mask::mask_data: out[i] = in[i] XOR key[i mod 4] *)
mask_data(key, data) == [i \in 1..Len(data) |-> BitXor(data[i], key[((i - 1) % 4) + 1])]

(* parse with a fault: the payload is read before the header is judged.    *)
parse_eager(bytes, eof, masked) ==
    LET h == read_header_nocontrolcheck(bytes)
        len == h.header.len
        have == U64Leq(len, Len(h.rest))
        raw == IF have THEN Take(h.rest, AsU16(len)) ELSE h.rest
        rest == IF have THEN Drop(h.rest, AsU16(len)) ELSE <<>>
        op == h.header.opcode
    IN
    IF ~h.ok THEN
        IF h.err = "Eof"
        THEN (IF eof THEN FrameErr(from_io_error("UnexpectedEof"), <<>>)
              ELSE FrameErr("Pending", bytes))
        ELSE FrameErr(h.err, h.rest)
    ELSE IF ~have /\ ~eof THEN FrameErr("Pending", bytes)
    ELSE IF op >= 8 /\ U64Geq(len, 126) THEN FrameErr("DataFrameError", rest)
    ELSE IF op >= 8 /\ ~contains(h.header.flags, FIN) THEN FrameErr("ProtocolError", rest)
    ELSE IF (h.header.mask # <<>>) # masked THEN FrameErr("DataFrameError", rest)
    ELSE FrameOk([finished |-> contains(h.header.flags, FIN),
                  reserved |-> <<contains(h.header.flags, RSV1),
                                 contains(h.header.flags, RSV2),
                                 contains(h.header.flags, RSV3)>>,
                  opcode |-> op,
                  data |-> IF h.header.mask # <<>> THEN mask_data(h.header.mask, raw) ELSE raw],
                 rest)

(* parse with a fault: the MASK bit is not held against the expectation.   *)
parse_frame_anymask(h, bytes, eof, masked) ==
    LET len == h.header.len
        have == U64Leq(len, Len(h.rest))
        raw == IF have THEN Take(h.rest, AsU16(len)) ELSE h.rest
        rest == IF have THEN Drop(h.rest, AsU16(len)) ELSE <<>>
    IN
    IF ~h.ok THEN
        IF h.err = "Eof"
        THEN (IF eof THEN FrameErr(from_io_error("UnexpectedEof"), <<>>)
              ELSE FrameErr("Pending", bytes))
        ELSE FrameErr(h.err, h.rest)
    ELSE IF ~have /\ ~eof THEN FrameErr("Pending", bytes)
    ELSE FrameOk([finished |-> contains(h.header.flags, FIN),
                  reserved |-> <<contains(h.header.flags, RSV1),
                                 contains(h.header.flags, RSV2),
                                 contains(h.header.flags, RSV3)>>,
                  opcode |-> h.header.opcode,
                  data |-> IF h.header.mask # <<>> THEN mask_data(h.header.mask, raw) ELSE raw],
                 rest)

(* parse with a fault: the payload is returned as it was on the wire. *)
parse_frame_nounmask(h, bytes, eof, masked) ==
    LET len == h.header.len
        have == U64Leq(len, Len(h.rest))
        raw == IF have THEN Take(h.rest, AsU16(len)) ELSE h.rest
        rest == IF have THEN Drop(h.rest, AsU16(len)) ELSE <<>>
    IN
    IF ~h.ok THEN
        IF h.err = "Eof"
        THEN (IF eof THEN FrameErr(from_io_error("UnexpectedEof"), <<>>)
              ELSE FrameErr("Pending", bytes))
        ELSE FrameErr(h.err, h.rest)
    ELSE IF h.header.mask # <<>> /\ ~masked THEN FrameErr("DataFrameError", h.rest)
    ELSE IF h.header.mask = <<>> /\ masked THEN FrameErr("DataFrameError", h.rest)
    ELSE IF ~have /\ ~eof THEN FrameErr("Pending", bytes)
    ELSE FrameOk([finished |-> contains(h.header.flags, FIN),
                  reserved |-> <<contains(h.header.flags, RSV1),
                                 contains(h.header.flags, RSV2),
                                 contains(h.header.flags, RSV3)>>,
                  opcode |-> h.header.opcode,
                  data |-> raw],
                 rest)

(* DataFrameT::parse(reader, masked), the reader holding `bytes` and then  *)
(* blocking, or ending when `eof`.  "Pending" stands for a read that       *)
(* blocks: nothing is returned yet.  An UnexpectedEof of the header reads  *)
(* becomes NoDataAvailable (From<io::Error>); take(len).bytes().collect()  *)
(* ends at the end of the stream without an error.                         *)
parse_frame(h, bytes, eof, masked) ==
    LET len == h.header.len
        have == U64Leq(len, Len(h.rest))
        raw == IF have THEN Take(h.rest, AsU16(len)) ELSE h.rest
        rest == IF have THEN Drop(h.rest, AsU16(len)) ELSE <<>>
    IN
    IF ~h.ok THEN
        IF h.err = "Eof"
        THEN (IF eof THEN FrameErr(from_io_error("UnexpectedEof"), <<>>)
              ELSE FrameErr("Pending", bytes))
        ELSE FrameErr(h.err, h.rest)
    ELSE IF h.header.mask # <<>> /\ ~masked THEN FrameErr("DataFrameError", h.rest)
    ELSE IF h.header.mask = <<>> /\ masked THEN FrameErr("DataFrameError", h.rest)
    ELSE IF ~have /\ ~eof THEN FrameErr("Pending", bytes)
    ELSE FrameOk([finished |-> contains(h.header.flags, FIN),
                  reserved |-> <<contains(h.header.flags, RSV1),
                                 contains(h.header.flags, RSV2),
                                 contains(h.header.flags, RSV3)>>,
                  opcode |-> h.header.opcode,
                  data |-> IF h.header.mask # <<>> THEN mask_data(h.header.mask, raw) ELSE raw],
                 rest)

parse(bytes, eof, masked) == parse_frame(read_header(bytes), bytes, eof, masked)

(* Receiver::recv_dataframe: the client expects unmasked frames, the       *)
(* server masked ones.                                                     *)
recv_dataframe(bytes, eof, s) == parse(bytes, eof, s = "server")

(* The same on a transport that fails with an error of kind e once its     *)
(* bytes are read: the read that would block fails, and try! returns the   *)
(* converted error.                                                        *)
try_read(r, e) == IF r.err = "Pending" /\ e # "" THEN FrameErr(from_io_error(e), <<>>) ELSE r
recv_dataframe_on(bytes, eof, e, s) == try_read(recv_dataframe(bytes, eof, s), e)

----------------------------------------------------------------------------
(* Message: kind, data (the bytes of the text or of the close reason) and  *)
(* code (the close status, -1 without one).                                *)

NoMsg == [kind |-> "", data |-> <<>>, code |-> 0 - 1]
Msg(kind, data) == [kind |-> kind, data |-> data, code |-> 0 - 1]
MsgOk(m) == [ok |-> TRUE, err |-> "", msg |-> m]
MsgErr(e) == [ok |-> FALSE, err |-> e, msg |-> NoMsg]

InRange(b, lo, hi) == lo <= b /\ b <= hi

(* std::str::from_utf8 accepts the bytes (RFC 3629 well-formed sequences). *)
RECURSIVE Utf8Valid(_)
Utf8Valid(d) ==
    IF d = <<>> THEN TRUE
    ELSE LET b == d[1]
             n == Len(d)
             cont(i) == i <= n /\ InRange(d[i], 128, 191)
         IN CASE b <= 127 -> Utf8Valid(Drop(d, 1))
              [] InRange(b, 194, 223) -> cont(2) /\ Utf8Valid(Drop(d, 2))
              [] b = 224 -> n >= 2 /\ InRange(d[2], 160, 191) /\ cont(3) /\ Utf8Valid(Drop(d, 3))
              [] InRange(b, 225, 236) \/ InRange(b, 238, 239) ->
                    cont(2) /\ cont(3) /\ Utf8Valid(Drop(d, 3))
              [] b = 237 -> n >= 2 /\ InRange(d[2], 128, 159) /\ cont(3) /\ Utf8Valid(Drop(d, 3))
              [] b = 240 -> n >= 2 /\ InRange(d[2], 144, 191) /\ cont(3) /\ cont(4)
                            /\ Utf8Valid(Drop(d, 4))
              [] InRange(b, 241, 243) -> cont(2) /\ cont(3) /\ cont(4) /\ Utf8Valid(Drop(d, 4))
              [] b = 244 -> n >= 2 /\ InRange(d[2], 128, 143) /\ cont(3) /\ cont(4)
                            /\ Utf8Valid(Drop(d, 4))
              [] OTHER -> FALSE

(* From<Utf8Error> with a fault: the error is filed as a ProtocolError. *)
from_utf8_error_protocol == "ProtocolError"

(* From<Utf8Error> for WebSocketError: what try! makes of the error of     *)
(* bytes_to_string.                                                        *)
from_utf8_error == "Utf8Error"

(* ws::util::message::message_from_data(opcode, data): the payload of a    *)
(* Text message and the reason of a Close message go through               *)
(* bytes_to_string.                                                        *)
message_from_data(opcode, data) ==
    CASE opcode = 1 ->
            IF Utf8Valid(data) THEN MsgOk(Msg("Text", data)) ELSE MsgErr(from_utf8_error)
      [] opcode = 2 -> MsgOk(Msg("Binary", data))
      [] opcode = 8 ->
            IF data = <<>> THEN MsgOk(Msg("Close", <<>>))
            ELSE IF Len(data) < 2 THEN MsgErr("ProtocolError")
            ELSE IF Utf8Valid(Drop(data, 2))
            THEN MsgOk([kind |-> "Close", data |-> Drop(data, 2),
                        code |-> data[1] * 256 + data[2]])
            ELSE MsgErr(from_utf8_error)
      [] opcode = 9 -> MsgOk(Msg("Ping", data))
      [] opcode = 10 -> MsgOk(Msg("Pong", data))
      [] OTHER -> MsgErr("ProtocolError")

Clear == <<FALSE, FALSE, FALSE>>

(* The loop of from_dataframes over the frames after the first. *)
RECURSIVE append_frames(_, _, _)
append_frames(fs, i, data) ==
    IF i > Len(fs) THEN [ok |-> TRUE, data |-> data]
    ELSE IF fs[i].opcode # 0 THEN [ok |-> FALSE, data |-> <<>>]
    ELSE IF fs[i].reserved # Clear THEN [ok |-> FALSE, data |-> <<>>]
    ELSE append_frames(fs, i + 1, data \o fs[i].data)

(* from_dataframes with a fault: the reserved bits of the continuation     *)
(* frames not looked at; the payloads joined in reverse.                   *)
RECURSIVE append_frames_norsv(_, _, _)
append_frames_norsv(fs, i, data) ==
    IF i > Len(fs) THEN [ok |-> TRUE, data |-> data]
    ELSE IF fs[i].opcode # 0 THEN [ok |-> FALSE, data |-> <<>>]
    ELSE append_frames_norsv(fs, i + 1, data \o fs[i].data)

from_dataframes_norsv(fs) ==
    IF fs = <<>> THEN MsgErr("ProtocolError")
    ELSE IF fs[1].reserved # Clear THEN MsgErr("ProtocolError")
    ELSE LET r == append_frames_norsv(fs, 2, fs[1].data) IN
         IF ~r.ok THEN MsgErr("ProtocolError")
         ELSE message_from_data(fs[1].opcode, r.data)

RECURSIVE prepend_frames(_, _, _)
prepend_frames(fs, i, data) ==
    IF i > Len(fs) THEN [ok |-> TRUE, data |-> data]
    ELSE IF fs[i].opcode # 0 THEN [ok |-> FALSE, data |-> <<>>]
    ELSE IF fs[i].reserved # Clear THEN [ok |-> FALSE, data |-> <<>>]
    ELSE prepend_frames(fs, i + 1, fs[i].data \o data)

from_dataframes_reversed(fs) ==
    IF fs = <<>> THEN MsgErr("ProtocolError")
    ELSE IF fs[1].reserved # Clear THEN MsgErr("ProtocolError")
    ELSE LET r == prepend_frames(fs, 2, fs[1].data) IN
         IF ~r.ok THEN MsgErr("ProtocolError")
         ELSE message_from_data(fs[1].opcode, r.data)

(* Message::from_dataframes *)
from_dataframes(fs) ==
    IF fs = <<>> THEN MsgErr("ProtocolError")
    ELSE IF fs[1].reserved # Clear THEN MsgErr("ProtocolError")
    ELSE LET r == append_frames(fs, 2, fs[1].data) IN
         IF ~r.ok THEN MsgErr("ProtocolError")
         ELSE message_from_data(fs[1].opcode, r.data)

----------------------------------------------------------------------------
(* recv_message_dataframes, between two blocking reads.  A step yields the *)
(* buffer it leaves and, when the call returns, what it returns.           *)

FramesOk(fs) == [ok |-> TRUE, err |-> "", frames |-> fs]
FramesErr(e) == [ok |-> FALSE, err |-> e, frames |-> <<>>]
NoFrames == FramesErr("none")
NoResult == MsgErr("none")

Returns(buf, ret) == [buffer |-> buf, done |-> TRUE, ret |-> ret]
Continues(buf) == [buffer |-> buf, done |-> FALSE, ret |-> NoFrames]

(* recv_first with a fault: a continuation frame starts a message. *)
recv_first_anyopcode(buf, r) ==
    IF ~r.ok THEN Returns(buf, FramesErr(r.err))
    ELSE IF r.frame.finished THEN Returns(<<>>, FramesOk(Append(buf, r.frame)))
    ELSE Continues(Append(buf, r.frame))

(* The branch taken with an empty buffer: the first frame of a message. *)
recv_first(buf, r) ==
    IF ~r.ok THEN Returns(buf, FramesErr(r.err))
    ELSE IF r.frame.opcode = 0 THEN Returns(buf, FramesErr("ProtocolError"))
    ELSE IF r.frame.finished THEN Returns(<<>>, FramesOk(Append(buf, r.frame)))
    ELSE Continues(Append(buf, r.frame))

(* recv_next with a fault: a control frame is queued behind the fragments; *)
(* any data frame is taken as a continuation.                              *)
recv_next_queued(buf, r) ==
    IF ~r.ok THEN Returns(buf, FramesErr(r.err))
    ELSE IF r.frame.opcode = 0 \/ r.frame.opcode >= 8 THEN
        IF r.frame.finished /\ r.frame.opcode = 0
        THEN Returns(<<>>, FramesOk(Append(buf, r.frame)))
        ELSE Continues(Append(buf, r.frame))
    ELSE Returns(buf, FramesErr("ProtocolError"))

recv_next_anydata(buf, r) ==
    IF ~r.ok THEN Returns(buf, FramesErr(r.err))
    ELSE IF r.frame.opcode < 8 THEN
        IF r.frame.finished THEN Returns(<<>>, FramesOk(Append(buf, r.frame)))
        ELSE Continues(Append(buf, r.frame))
    ELSE Returns(buf, FramesOk(<<r.frame>>))

(* recv_next with a fault: a read that fails gives up the fragments held. *)
recv_next_dropped(buf, r) ==
    IF ~r.ok THEN Returns(<<>>, FramesErr(r.err))
    ELSE IF r.frame.opcode = 0 THEN
        IF r.frame.finished THEN Returns(<<>>, FramesOk(Append(buf, r.frame)))
        ELSE Continues(Append(buf, r.frame))
    ELSE IF r.frame.opcode >= 8 THEN Returns(buf, FramesOk(<<r.frame>>))
    ELSE Returns(buf, FramesErr("ProtocolError"))

(* recv_next with a fault: the buffer is returned and not cleared. *)
recv_next_kept(buf, r) ==
    IF ~r.ok THEN Returns(buf, FramesErr(r.err))
    ELSE IF r.frame.opcode = 0 THEN
        IF r.frame.finished
        THEN Returns(Append(buf, r.frame), FramesOk(Append(buf, r.frame)))
        ELSE Continues(Append(buf, r.frame))
    ELSE IF r.frame.opcode >= 8 THEN Returns(buf, FramesOk(<<r.frame>>))
    ELSE Returns(buf, FramesErr("ProtocolError"))

(* One turn of `while !finished`. *)
recv_next(buf, r) ==
    IF ~r.ok THEN Returns(buf, FramesErr(r.err))
    ELSE IF r.frame.opcode = 0 THEN
        IF r.frame.finished THEN Returns(<<>>, FramesOk(Append(buf, r.frame)))
        ELSE Continues(Append(buf, r.frame))
    ELSE IF r.frame.opcode >= 8 THEN Returns(buf, FramesOk(<<r.frame>>))
    ELSE Returns(buf, FramesErr("ProtocolError"))

(* ws::Receiver::recv_message on what recv_message_dataframes returned *)
recv_message(ret) == IF ret.ok THEN from_dataframes(ret.frames) ELSE MsgErr(ret.err)

----------------------------------------------------------------------------
(* The peer: any endpoint, which writes RFC 6455 frames and forged ones.   *)
(* A peer frame: flags (the four bits), opcode, key (<<>> when unmasked),  *)
(* len (the payload length its header announces), data (the payload bytes  *)
(* written so far: all of them unless the frame is cut short) and the form *)
(* of its length field.                                                    *)

MaxFrags == 2

PeerFlags == {0, FIN, RSV1, FIN + RSV2, FIN + RSV3}
PeerOpcodes == {0, 1, 2, 3, 9}
PeerPayloads == {<<>>, <<195>>, <<169>>}

PeerKey(s) == IF s = "server" THEN MaskKey ELSE <<>>
WrongKey(s) == IF s = "server" THEN <<>> ELSE MaskKey

PeerFrames(s) ==
    \* every flag and opcode; an empty payload in final frames only
    {f \in {[flags |-> fl, opcode |-> op, key |-> PeerKey(s), len |-> Len(d), data |-> d,
             form |-> "minimal"] : fl \in PeerFlags, op \in PeerOpcodes, d \in PeerPayloads} :
        f.data # <<>> \/ f.flags >= FIN}
    \* masked towards the client, unmasked towards the server
    \cup {[flags |-> fl, opcode |-> op, key |-> WrongKey(s), len |-> 1, data |-> <<195>>,
           form |-> "minimal"] : fl \in {0, FIN}, op \in {0, 2, 9}}
    \* a length field that is not minimal
    \cup {[flags |-> FIN, opcode |-> op, key |-> PeerKey(s), len |-> 1, data |-> <<195>>,
           form |-> fo] : op \in {2, 9}, fo \in {"ext16", "ext64"}}
    \* a control frame that announces 126 bytes or more, its first bytes written
    \cup {[flags |-> FIN, opcode |-> 9, key |-> k, len |-> n, data |-> <<112, 105, 110>>,
           form |-> "minimal"] : k \in HeaderMasks, n \in {126, 65536}}
    \* a data frame that announces more bytes than are written
    \cup {[flags |-> FIN, opcode |-> 2, key |-> PeerKey(s), len |-> 2, data |-> <<195>>,
           form |-> "minimal"]}
    \* the first byte of a header and nothing more
    \cup {[flags |-> FIN, opcode |-> 2, key |-> PeerKey(s), len |-> 0, data |-> <<>>,
           form |-> "torn"]}

(* The error kinds the transport fails with, other than the end of stream. *)
PeerFaults == {"ConnectionReset", "TimedOut"}

NoPeerFrame ==
    [flags |-> 0, opcode |-> 0, key |-> <<>>, len |-> 0, data |-> <<>>, form |-> "none"]

(* The bytes of a peer frame on the wire. *)
PeerBytes(f) ==
    LET n == f.len
        form == IF f.form \in {"minimal", "torn"}
                THEN (IF n <= 125 THEN "short" ELSE IF n <= 65535 THEN "ext16" ELSE "ext64")
                ELSE f.form
        marker == CASE form = "short" -> n [] form = "ext16" -> 126 [] form = "ext64" -> 127
        ext == CASE form = "short" -> <<>>
                 [] form = "ext16" -> <<n \div 256, n % 256>>
                 [] form = "ext64" ->
                        <<0, 0, 0, 0, n \div 16777216, (n \div 65536) % 256,
                          (n \div 256) % 256, n % 256>>
    IN IF f.form = "torn" THEN <<f.flags + f.opcode>> ELSE
       <<f.flags + f.opcode, (IF f.key = <<>> THEN 0 ELSE 128) + marker>>
       \o ext \o f.key
       \o (IF f.key = <<>> THEN f.data
           ELSE [i \in 1..Len(f.data) |-> BitXor(f.data[i], f.key[((i - 1) % 4) + 1])])

RecvInit ==
    /\ side \in {"client", "server"}
    /\ fault = ""
    /\ wire = <<>>
    /\ closed = FALSE
    /\ buffer = <<>>
    /\ pc = "idle"
    /\ frames = NoFrames
    /\ result = NoResult
    /\ sent = NoPeerFrame
    /\ frags = <<>>
    /\ track = FALSE
    /\ ctl = FALSE

(* The pending read of the Receiver blocks: the wire holds no whole frame. *)
Blocked == pc # "idle" /\ recv_dataframe_on(wire, closed, fault, side).err = "Pending"

(* A frame the Receiver of side s has to accept: minimal length field, the *)
(* whole payload, masked exactly towards the server, control frames final  *)
(* and short.                                                              *)
WellFormed(f, s) ==
    /\ f.form = "minimal"
    /\ f.len = Len(f.data)
    /\ (f.key # <<>>) = (s = "server")
    /\ f.opcode >= 8 => (f.flags >= FIN /\ f.len <= 125)

(* The peer writes one frame, once the Receiver has taken every byte of    *)
(* the frame before and waits for more; it stops adding fragments to a     *)
(* message of which the Receiver holds MaxFrags.  frags and track follow the        *)
(* message the peer is sending: they are given up (track = FALSE) as soon  *)
(* as the peer writes a frame that is not well formed or, inside a         *)
(* fragmented message, a data frame that is no continuation.               *)
PeerSend(f) ==
    /\ pc # "idle"
    /\ wire = <<>>
    /\ ~closed /\ fault = ""
    /\ Len(buffer) < MaxFrags \/ f.flags >= FIN
    /\ wire' = PeerBytes(f)
    /\ sent' = f
    /\ IF pc = "first" /\ WellFormed(f, side)
       THEN /\ track' = TRUE
            /\ frags' = (IF f.opcode < 8 THEN <<f>> ELSE <<>>)
            /\ ctl' = FALSE
       ELSE IF pc = "loop" /\ track /\ WellFormed(f, side) /\ (f.opcode = 0 \/ f.opcode >= 8)
       THEN /\ track' = TRUE
            /\ frags' = (IF f.opcode = 0 THEN Append(frags, f) ELSE frags)
            /\ ctl' = (ctl \/ f.opcode >= 8)
       ELSE track' = FALSE /\ frags' = <<>> /\ ctl' = FALSE
    /\ UNCHANGED <<side, fault, closed, buffer, pc, frames, result>>

(* The peer closes the transport while the Receiver waits for bytes. *)
PeerClose ==
    /\ ~closed
    /\ Blocked
    /\ closed' = TRUE
    /\ UNCHANGED <<side, fault, wire, buffer, pc, frames, result, sent, frags, track, ctl>>

(* The transport fails while the Receiver waits for bytes. *)
PeerFail(e) ==
    /\ fault = ""
    /\ Blocked
    /\ fault' = e
    /\ UNCHANGED <<side, wire, closed, buffer, pc, frames, result, sent, frags, track, ctl>>

(* recv_message is called: it blocks in its first read.  The frame the     *)
(* call before read is forgotten.                                          *)
RecvCall ==
    /\ pc = "idle"
    /\ pc' = IF buffer = <<>> THEN "first" ELSE "loop"
    /\ frames' = NoFrames
    /\ result' = NoResult
    /\ sent' = NoPeerFrame
    /\ UNCHANGED <<side, fault, wire, closed, buffer, frags, track, ctl>>

(* What a step of recv_message_dataframes leaves in the Receiver. *)
Step(r, st) ==
    /\ wire' = r.rest
    /\ buffer' = st.buffer
    /\ IF st.done
       THEN pc' = "idle" /\ frames' = st.ret /\ result' = recv_message(st.ret)
       ELSE pc' = "loop" /\ UNCHANGED <<frames, result>>
    /\ UNCHANGED <<side, fault, closed, sent, frags, track, ctl>>

(* The read of the first frame completes. *)
ReadFirst ==
    /\ pc = "first"
    /\ LET r == recv_dataframe_on(wire, closed, fault, side) IN
       /\ r.err # "Pending"
       /\ Step(r, recv_first(buffer, r))

(* A read of the loop completes. *)
ReadNext ==
    /\ pc = "loop"
    /\ LET r == recv_dataframe_on(wire, closed, fault, side) IN
       /\ r.err # "Pending"
       /\ Step(r, recv_next(buffer, r))

----------------------------------------------------------------------------
(* The sending side: Message::into_iter and Message::iter (message.rs),    *)
(* DataFrameHeader::new (ws/util/header.rs), DataFrame::write_to, and the  *)
(* Sender (sender.rs, ws/sender.rs).                                       *)

(* DataFrame::new(finished, opcode, data): the reserved bits are clear. *)
DataFrame_new(finished, opcode, data) ==
    [finished |-> finished, reserved |-> Clear, opcode |-> opcode, data |-> data]

(* The opcode Message::into_iter gives to each variant of Message. *)
opcode_of(kind) ==
    CASE kind = "Text" -> 1
      [] kind = "Binary" -> 2
      [] kind = "Close" -> 8
      [] kind = "Ping" -> 9
      [] kind = "Pong" -> 10

(* CloseData::new(status_code, reason): both taken as they are given. *)
CloseData_new(status_code, reason) ==
    [kind |-> "Close", data |-> reason, code |-> status_code]

(* CloseData::into_bytes: the status code, big-endian, then the reason. *)
into_bytes(status_code, reason) == BE16(status_code) \o reason

(* Message::into_iter with a fault: the status code of a Close is left out. *)
into_iter_nocode(m) == <<DataFrame_new(TRUE, opcode_of(m.kind), m.data)>>

(* Message::into_iter: the one frame of a message.  A Close without        *)
(* CloseData (code -1 here) has an empty payload.                          *)
into_iter(m) ==
    <<DataFrame_new(TRUE, opcode_of(m.kind),
                    IF m.kind = "Close" /\ m.code >= 0
                    THEN into_bytes(m.code, m.data)
                    ELSE m.data)>>

(* Message::iter: unimplemented!(), a panic at the call. *)
iter(m) == [panic |-> TRUE, frames |-> <<>>]

(* DataFrameHeader::new(fin, reserved, opcode, mask, len); key is what     *)
(* gen_mask returns when mask is set.                                      *)
DataFrameHeader_new(fin, reserved, opcode, mask, key, len) ==
    [flags |-> (IF fin THEN FIN ELSE 0) + (IF reserved[1] THEN RSV1 ELSE 0)
               + (IF reserved[2] THEN RSV2 ELSE 0) + (IF reserved[3] THEN RSV3 ELSE 0),
     opcode |-> opcode,
     mask |-> IF mask THEN key ELSE <<>>,
     len |-> U64Of(len)]

SendOk(bytes) == [ok |-> TRUE, err |-> "", bytes |-> bytes]
SendErr(e) == [ok |-> FALSE, err |-> e, bytes |-> <<>>]

(* What write_to writes after the header write w: nothing when the header  *)
(* was refused, else the header and the payload, masked under the key of   *)
(* the header.                                                             *)
write_payload(w, header, data) ==
    IF ~w.ok THEN SendErr(w.err)
    ELSE SendOk(w.bytes \o (IF header.mask # <<>> THEN mask_data(header.mask, data) ELSE data))

write_frame(header, data) == write_payload(write_header(header), header, data)

(* DataFrame::write_to(writer, mask): the header of DataFrameHeader::new   *)
(* through write_header, then the payload.                                 *)
write_to(dataframe, mask, key) ==
    write_frame(DataFrameHeader_new(dataframe.finished, dataframe.reserved, dataframe.opcode,
                                    mask, key, Len(dataframe.data)),
                dataframe.data)

(* send_dataframe with a fault: the frame is written without a mask. *)
send_dataframe_unmasked(dataframe, key) == write_to(dataframe, FALSE, key)

(* Sender::send_dataframe (sender.rs): write_to(&mut self.inner, true). *)
send_dataframe(dataframe, key) == write_to(dataframe, TRUE, key)

(* server::Sender::send_dataframe: the frame goes out unmasked. *)
server_send_dataframe(dataframe) == write_to(dataframe, FALSE, <<>>)

(* The Sender of side s. *)
sender_send_dataframe(s, dataframe, key) ==
    IF s = "client" THEN send_dataframe(dataframe, key) ELSE server_send_dataframe(dataframe)

(* The loop of ws::Sender::send_message over the frames from the i-th:     *)
(* try! leaves at the first send that fails.                               *)
RECURSIVE send_frames(_, _, _, _, _)
send_frames(s, fs, i, key, written) ==
    IF i > Len(fs) THEN [ok |-> TRUE, err |-> "", written |-> written]
    ELSE LET r == sender_send_dataframe(s, fs[i], key) IN
         IF ~r.ok THEN [ok |-> FALSE, err |-> r.err, written |-> written]
         ELSE send_frames(s, fs, i + 1, key, Append(written, r.bytes))

(* ws::Sender::send_message: for ref dataframe in message.iter() { try!(send_dataframe) } *)
send_message_over(it, s, key) ==
    IF it.panic THEN [ok |-> FALSE, err |-> "panic", written |-> <<>>]
    ELSE send_frames(s, it.frames, 1, key, <<>>)
send_message(s, m, key) == send_message_over(iter(m), s, key)

(* ---- the harness of the sending side (specification SpecSend) ---- *)

MaxSends == 2

(* A payload one byte too long for a control frame. *)
Big == [i \in 1..126 |-> 65]

(* The keys gen_mask is let return. *)
SendKeys == {MaskKey, <<0, 0, 0, 129>>}

(* The messages the application sends: every variant, a Close without     *)
(* CloseData, with a code alone, with a code and a reason.                 *)
SendMessages ==
    {Msg("Text", <<104, 105>>), Msg("Binary", <<0, 255, 128, 7, 9>>), Msg("Close", <<>>),
     CloseData_new(1000, <<111, 107>>), CloseData_new(1006, <<>>),
     Msg("Ping", <<1>>), Msg("Pong", <<1>>), Msg("Ping", Big)}

(* The frames the application hands to send_dataframe: taken from          *)
(* into_iter of a message, or built by DataFrame::new from any flag,       *)
(* opcode and payload.                                                     *)
SendFrames ==
    {into_iter(m)[1] : m \in SendMessages}
    \cup {DataFrame_new(FALSE, 9, <<1>>), DataFrame_new(FALSE, 2, <<1, 2, 3, 4, 5>>),
          DataFrame_new(TRUE, 0, <<>>)}

NoOp ==
    [op |-> "none", frame |-> NoFrame, msg |-> NoMsg, key |-> <<>>, n |-> 0,
     ok |-> TRUE, err |-> "", got |-> FrameErr("none", <<>>), back |-> MsgErr("none")]

SendInit == out = <<>> /\ last = NoOp

(* The application calls send_dataframe(f); gen_mask returns key. *)
SendDataframe(f, key) ==
    /\ Len(out) < MaxSends
    /\ LET r == sender_send_dataframe(side, f, key) IN
       /\ out' = IF r.ok THEN Append(out, [bytes |-> r.bytes, frame |-> f,
                                          key |-> IF side = "client" THEN key ELSE <<>>])
                 ELSE out
       /\ last' = [NoOp EXCEPT !.op = "dataframe", !.frame = f, !.key = key, !.n = Len(out),
                               !.ok = r.ok, !.err = r.err]

(* The application calls send_message(m). *)
SendMessage(m, key) ==
    /\ Len(out) < MaxSends
    /\ LET r == send_message(side, m, key) IN
       /\ out' = out \o [i \in 1..Len(r.written) |->
                           [bytes |-> r.written[i], frame |-> into_iter(m)[i],
                            key |-> IF side = "client" THEN key ELSE <<>>]]
       /\ last' = [NoOp EXCEPT !.op = "message", !.msg = m, !.n = Len(out),
                               !.ok = r.ok, !.err = r.err]

(* The Receiver of the other side reads the frame written last. *)
PeerReceive ==
    /\ out # <<>>
    /\ last.op \in {"dataframe", "message"}
    /\ last' = [NoOp EXCEPT !.op = "receive", !.n = Len(out),
                            !.got = parse(out[Len(out)].bytes, FALSE, side = "client")]
    /\ UNCHANGED out

(* The application turns a message into frames and the frames back. *)
FromDataframes(m) ==
    /\ last' = [NoOp EXCEPT !.op = "roundtrip", !.msg = m, !.n = Len(out),
                            !.back = from_dataframes(into_iter(m))]
    /\ UNCHANGED out

----------------------------------------------------------------------------
(* The opening handshake: the headers and their serialization              *)
(* (http/headers.rs), the response to a request (http/handshake.rs) and    *)
(* the response of the server (server/response.rs).  A string the code     *)
(* computes with is a sequence of ASCII codes; a 32-bit word of SHA-1 is a *)
(* pair <<high, low>> of 16-bit halves.                                    *)

W(hi, lo) == <<hi, lo>>
WXor(a, b) == <<BitOp("xor", a[1], b[1], 16), BitOp("xor", a[2], b[2], 16)>>
WAnd(a, b) == <<BitOp("and", a[1], b[1], 16), BitOp("and", a[2], b[2], 16)>>
WOr(a, b) == <<BitOp("or", a[1], b[1], 16), BitOp("or", a[2], b[2], 16)>>
WNot(a) == <<65535 - a[1], 65535 - a[2]>>
WAdd(a, b) == <<(a[1] + b[1] + ((a[2] + b[2]) \div 65536)) % 65536, (a[2] + b[2]) % 65536>>
(* rotate left by n bits, 0 < n < 16; by 30 bits *)
WRotl(a, n) ==
    <<((a[1] * 2^n) % 65536) + (a[2] \div 2^(16 - n)),
      ((a[2] * 2^n) % 65536) + (a[1] \div 2^(16 - n))>>
WRotl30(a) == WRotl(<<a[2], a[1]>>, 14)

(* SHA-1 (FIPS 180-4), as openssl::crypto::hash::hash(Type::SHA1, ..)      *)
(* computes it.                                                            *)
sha1_pad(m) ==
    m \o <<128>> \o [i \in 1..((119 - Len(m)) % 64) |-> 0]
      \o <<0, 0, 0, 0, 0, 0, (Len(m) * 8) \div 256, (Len(m) * 8) % 256>>

WordAt(bytes, i) == <<bytes[i] * 256 + bytes[i + 1], bytes[i + 2] * 256 + bytes[i + 3]>>

RECURSIVE sha1_schedule(_)
sha1_schedule(w) ==
    IF Len(w) = 80 THEN w
    ELSE sha1_schedule(Append(w,
            WRotl(WXor(WXor(w[Len(w) - 2], w[Len(w) - 7]),
                       WXor(w[Len(w) - 13], w[Len(w) - 15])), 1)))

sha1_f(t, b, c, d) ==
    IF t < 20 THEN WOr(WAnd(b, c), WAnd(WNot(b), d))
    ELSE IF t < 40 THEN WXor(WXor(b, c), d)
    ELSE IF t < 60 THEN WOr(WOr(WAnd(b, c), WAnd(b, d)), WAnd(c, d))
    ELSE WXor(WXor(b, c), d)

sha1_k(t) ==
    IF t < 20 THEN W(23170, 31129)
    ELSE IF t < 40 THEN W(28377, 60321)
    ELSE IF t < 60 THEN W(36635, 48348)
    ELSE W(51810, 49622)

(* the rounds t..79 on the working variables s = <<a, b, c, d, e>> *)
RECURSIVE sha1_rounds(_, _, _)
sha1_rounds(t, w, s) ==
    IF t = 80 \/ s[1] = <<>> THEN s
    ELSE sha1_rounds(t + 1, w,
            <<WAdd(WAdd(WAdd(WRotl(s[1], 5), sha1_f(t, s[2], s[3], s[4])),
                        WAdd(s[5], sha1_k(t))), w[t + 1]),
              s[1], WRotl30(s[2]), s[3], s[4]>>)

sha1_add(h, s) == [i \in 1..5 |-> WAdd(h[i], s[i])]
sha1_block(h, block) ==
    sha1_add(h, sha1_rounds(0, sha1_schedule([i \in 1..16 |-> WordAt(block, 4 * i - 3)]), h))

RECURSIVE sha1_blocks(_, _)
sha1_blocks(h, bytes) ==
    IF bytes = <<>> THEN h
    ELSE sha1_blocks(sha1_block(h, SubSeq(bytes, 1, 64)), SubSeq(bytes, 65, Len(bytes)))

sha1_digest(h) ==
    [i \in 1..20 |->
        LET half == h[((i - 1) \div 4) + 1][(((i - 1) % 4) \div 2) + 1]
        IN IF i % 2 = 1 THEN half \div 256 ELSE half % 256]

sha1(m) ==
    sha1_digest(sha1_blocks(<<W(26437, 8961), W(61389, 43913), W(39098, 56574),
                              W(4146, 21622), W(50130, 57840)>>,
                            sha1_pad(m)))

(* ToBase64::to_base64(STANDARD): the code of the i-th character of the    *)
(* alphabet, and the encoding with '=' padding.                            *)
base64_char(i) ==
    IF i < 26 THEN 65 + i
    ELSE IF i < 52 THEN 97 + (i - 26)
    ELSE IF i < 62 THEN 48 + (i - 52)
    ELSE IF i = 62 THEN 43 ELSE 47

RECURSIVE to_base64(_)
to_base64(bytes) ==
    IF bytes = <<>> THEN <<>>
    ELSE IF Len(bytes) = 1 THEN
        <<base64_char(bytes[1] \div 4), base64_char((bytes[1] % 4) * 16), 61, 61>>
    ELSE IF Len(bytes) = 2 THEN
        <<base64_char(bytes[1] \div 4),
          base64_char((bytes[1] % 4) * 16 + bytes[2] \div 16),
          base64_char((bytes[2] % 16) * 4), 61>>
    ELSE <<base64_char(bytes[1] \div 4),
           base64_char((bytes[1] % 4) * 16 + bytes[2] \div 16),
           base64_char((bytes[2] % 16) * 4 + bytes[3] \div 64),
           base64_char(bytes[3] % 64)>>
         \o to_base64(SubSeq(bytes, 4, Len(bytes)))

MAGIC_GUID ==
    <<50, 53, 56, 69, 65, 70, 65, 53, 45, 69, 57, 49, 52, 45, 52, 55, 68, 65, 45, 57, 53,
      67, 65, 45, 67, 53, 65, 66, 48, 68, 67, 56, 53, 66, 49, 49>>

(* Into<WebSocketAccept> with a fault: the GUID goes in front of the key. *)
into_accept_guidfirst(key) == to_base64(sha1(MAGIC_GUID \o key))

(* Into<WebSocketAccept> for WebSocketKey: push_str(MAGIC_GUID), SHA-1,    *)
(* base64.                                                                 *)
into_accept(key) == to_base64(sha1(key \o MAGIC_GUID))

(* What a stream was given to write: a literal of the source, or a string  *)
(* the code computed.                                                      *)
Text(t) == [text |-> t, bytes |-> <<>>]
Raw(b) == [text |-> "", bytes |-> b]

None == [some |-> FALSE, list |-> <<>>]
Some(l) == [some |-> TRUE, list |-> l]

(* Header::write_value for WebSocketProtocol: the protocols, ", " between. *)
RECURSIVE write_protocols(_, _)
write_protocols(protocols, i) ==
    IF i > Len(protocols) THEN <<>>
    ELSE (IF i > 1 THEN <<Text(", ")>> ELSE <<>>) \o <<Text(protocols[i])>>
         \o write_protocols(protocols, i + 1)

(* Serialize for a Header: field, ": ", the value, CRLF. *)
serialize_header(field, value) == <<Text(field), Text(": ")>> \o value \o <<Text("\r\n")>>

NoRequest ==
    [resource |-> "", host |-> "", upgrade |-> "", connection |-> "", key |-> <<>>,
     protocol |-> None, version |-> <<>>, origin |-> None]
NoResponse ==
    [via |-> "", upgrade |-> "", connection |-> "", accept |-> <<>>, protocol |-> None]

(* Request::new(host, options), key being what WebSocketKey::new() drew. *)
Request_new(host, protocols, key) ==
    [resource |-> "/", host |-> host, upgrade |-> "websocket", connection |-> "Upgrade",
     key |-> key, protocol |-> protocols, version |-> <<"13">>, origin |-> None]

(* Response::accept(request) *)
Response_accept(req) ==
    [via |-> "handshake", upgrade |-> req.upgrade, connection |-> req.connection,
     accept |-> into_accept(req.key), protocol |-> None]

(* Response::accept_protocols(request, protocols) *)
Response_accept_protocols(req, protocols) ==
    [via |-> "handshake", upgrade |-> req.upgrade, connection |-> req.connection,
     accept |-> into_accept(req.key), protocol |-> Some(protocols)]

(* Serialize for Response *)
serialize_response(resp) ==
    serialize_header("Upgrade", <<Text(resp.upgrade)>>)
    \o serialize_header("Connection", <<Text(resp.connection)>>)
    \o serialize_header("Sec-WebSocket-Accept", <<Raw(resp.accept)>>)
    \o (IF resp.protocol.some
        THEN serialize_header("Sec-WebSocket-Protocol", write_protocols(resp.protocol.list, 1))
        ELSE <<>>)
    \o <<Text("\r\n")>>

(* server::Response::new(request): status 101, HTTP/1.1, and the headers   *)
(* Sec-WebSocket-Accept, Connection and Upgrade set in a hyper Headers.    *)
server_Response_new(req) ==
    [via |-> "server", upgrade |-> "websocket", connection |-> "Upgrade",
     accept |-> into_accept(req.key), protocol |-> None]

StatusLine == Text("HTTP/1.1 101 Switching Protocols\r\n")

(* The header lines of a server Response, by field name. *)
server_header(resp, field) ==
    CASE field = "Upgrade" -> serialize_header("Upgrade", <<Text(resp.upgrade)>>)
      [] field = "Connection" -> serialize_header("Connection", <<Text(resp.connection)>>)
      [] field = "Sec-WebSocket-Accept" ->
            serialize_header("Sec-WebSocket-Accept", <<Raw(resp.accept)>>)

(* server::Response::send: "{version} {status}\r\n", then "{headers}\r\n", *)
(* the headers coming in the order the hyper Headers yields them.          *)
server_send(resp, order) ==
    <<StatusLine>>
    \o server_header(resp, order[1]) \o server_header(resp, order[2])
    \o server_header(resp, order[3])
    \o <<Text("\r\n")>>

(* ---- the harness of the handshake (specification SpecHandshake) ---- *)

(* dGhlIHNhbXBsZSBub25jZQ== *)
SampleKey ==
    <<100, 71, 104, 108, 73, 72, 78, 104, 98, 88, 66, 115, 90, 83, 66, 117, 98, 50, 53, 106,
      90, 81, 61, 61>>
(* AQIDBAUGBwgJCgsMDQ4PEA== *)
OtherKey ==
    <<65, 81, 73, 68, 66, 65, 85, 71, 66, 119, 103, 74, 67, 103, 115, 77, 68, 81, 52, 80, 69,
      65, 61, 61>>
(* x3JJHMbDL1EzLkh9GBhXDw== *)
ThirdKey ==
    <<120, 51, 74, 74, 72, 77, 98, 68, 76, 49, 69, 122, 76, 107, 104, 57, 71, 66, 104, 88, 68,
      119, 61, 61>>

HandshakeKeys == {SampleKey, OtherKey, ThirdKey}
HandshakeHosts == {"a.example", "b.example"}
OfferedProtocols == {None, Some(<<"chat">>), Some(<<"chat", "superchat">>)}
AcceptedProtocols == {<<>>, <<"chat">>, <<"mqtt">>, <<"mqtt", "chat">>}
HeaderOrders ==
    {o \in [1..3 -> {"Upgrade", "Connection", "Sec-WebSocket-Accept"}] :
        o[1] # o[2] /\ o[1] # o[3] /\ o[2] # o[3]}

HandshakeIdle == request = NoRequest /\ response = NoResponse /\ stream = <<>>

(* The client's request arrives. *)
NewRequest(host, protocols, key) ==
    /\ request = NoRequest
    /\ request' = Request_new(host, protocols, key)
    /\ UNCHANGED <<response, stream>>

(* The server answers with Response::accept. *)
Accept ==
    /\ request # NoRequest
    /\ response = NoResponse
    /\ response' = Response_accept(request)
    /\ UNCHANGED <<request, stream>>

(* The server answers with Response::accept_protocols. *)
AcceptProtocols(protocols) ==
    /\ request # NoRequest
    /\ response = NoResponse
    /\ response' = Response_accept_protocols(request, protocols)
    /\ UNCHANGED <<request, stream>>

(* The response is serialized to the stream. *)
Serialize ==
    /\ response.via = "handshake"
    /\ stream = <<>>
    /\ stream' = serialize_response(response)
    /\ UNCHANGED <<request, response>>

(* The server answers with server::Response::new. *)
ServerResponse ==
    /\ request # NoRequest
    /\ response = NoResponse
    /\ response' = server_Response_new(request)
    /\ UNCHANGED <<request, stream>>

(* server::Response::send writes the response. *)
ServerSend(order) ==
    /\ response.via = "server"
    /\ stream = <<>>
    /\ stream' = server_send(response, order)
    /\ UNCHANGED <<request, response>>

----------------------------------------------------------------------------
(* The server side of a connection, from accept to the Client              *)
(* (server/mod.rs, server/response.rs).                                    *)

NoConn ==
    [at |-> "none", status |-> "", open |-> FALSE, client |-> FALSE, err |-> ""]

(* Server::accept: Connection(reader, writer) over the accepted stream. *)
Server_accept == [NoConn EXCEPT !.at = "connection", !.open = TRUE]

(* What Request::read requires of a request.  Request::read is outside of  *)
(* the source tree at hand; the requirements are those the specification   *)
(* lists for the server path.                                              *)
Request_valid(req) ==
    /\ req.resource # "" /\ req.host # ""
    /\ req.upgrade = "websocket" /\ req.connection = "Upgrade"
    /\ req.version = <<"13">>
    /\ Len(req.key) = 24

BadRequestLine == Text("HTTP/1.1 400 Bad Request\r\n")

(* Request::read(reader, writer): the request, or, for a request that     *)
(* misses an element, the 400 response written and the streams dropped.    *)
Request_read(c, req) ==
    IF Request_valid(req)
    THEN [ok |-> TRUE, request |-> req, written |-> <<>>,
          conn |-> [c EXCEPT !.at = "request"]]
    ELSE [ok |-> FALSE, request |-> NoRequest, written |-> <<BadRequestLine, Text("\r\n")>>,
          conn |-> [c EXCEPT !.at = "dropped", !.status = "BadRequest", !.open = FALSE]]

(* Connection::read_request: Ok(result), or the error as an io::Error of   *)
(* kind InvalidInput.                                                      *)
read_request(c, req) ==
    LET r == Request_read(c, req) IN
    IF r.ok THEN r ELSE [r EXCEPT !.conn.err = "InvalidInput"]

(* server::Response::bad_request(request): status 400 and Headers::new(). *)
server_bad_request(req) == [NoResponse EXCEPT !.via = "server"]

(* "{version} {status}\r\n" *)
status_line(status) == IF status = "SwitchingProtocols" THEN StatusLine ELSE BadRequestLine

(* "{headers}\r\n": the headers that are set, then the empty line. *)
headers_text(resp, order) ==
    (IF resp.accept = <<>> THEN <<>>
     ELSE server_header(resp, order[1]) \o server_header(resp, order[2])
          \o server_header(resp, order[3]))
    \o <<Text("\r\n")>>

(* server::Response::send: the status line, then the headers, each under   *)
(* try!; then Sender::new(writer), Receiver::new(reader) and               *)
(* Ok(Client::new(sender, receiver)).  failing is the write the transport  *)
(* fails, if any; the response is consumed either way.                     *)
Response_send(c, resp, order, failing) ==
    IF failing = "status" THEN
        [written |-> <<>>, conn |-> [c EXCEPT !.at = "failed", !.open = FALSE, !.err = "IoError"]]
    ELSE IF failing = "headers" THEN
        [written |-> <<status_line(c.status)>>,
         conn |-> [c EXCEPT !.at = "failed", !.open = FALSE, !.err = "IoError"]]
    ELSE
        [written |-> <<status_line(c.status)>> \o headers_text(resp, order),
         conn |-> [c EXCEPT !.at = "client", !.client = TRUE]]

(* http/mod.rs, the client's into_ws: unimplemented!(). *)
into_ws == [panic |-> TRUE]

(* ---- the harness of the server connection (specification SpecServer) ---- *)

PeerRequests ==
    LET good == {Request_new(host, None, key) : host \in HandshakeHosts, key \in HandshakeKeys}
    IN good
       \cup {[r EXCEPT !.upgrade = "h2c"] : r \in good}
       \cup {[r EXCEPT !.version = <<"8">>] : r \in good}
       \cup {[r EXCEPT !.key = <<>>] : r \in good}
       \cup {[r EXCEPT !.host = ""] : r \in good}

ServerFrames == {DataFrame_new(TRUE, 1, <<104, 105>>), DataFrame_new(TRUE, 9, <<>>)}
SendFailures == {"", "status", "headers"}

ServerAccept ==
    /\ conn = NoConn
    /\ conn' = Server_accept
    /\ UNCHANGED <<request, response, stream, sends>>

ServerReadRequest(req) ==
    /\ conn.at = "connection"
    /\ LET r == read_request(conn, req) IN
       /\ conn' = r.conn
       /\ request' = r.request
       /\ stream' = stream \o r.written
    /\ UNCHANGED <<response, sends>>

ServerNew ==
    /\ conn.at = "request"
    /\ response' = server_Response_new(request)
    /\ conn' = [conn EXCEPT !.at = "response", !.status = "SwitchingProtocols"]
    /\ UNCHANGED <<request, stream, sends>>

ServerBadRequest ==
    /\ conn.at = "request"
    /\ response' = server_bad_request(request)
    /\ conn' = [conn EXCEPT !.at = "response", !.status = "BadRequest"]
    /\ UNCHANGED <<request, stream, sends>>

ServerResponseSend(order, failing) ==
    /\ conn.at = "response"
    /\ LET r == Response_send(conn, response, order, failing) IN
       /\ conn' = r.conn
       /\ stream' = stream \o r.written
    /\ UNCHANGED <<request, response, sends>>

(* The Client that send returned writes a frame to the connection. *)
ServerClientSend(f) ==
    /\ conn.client
    /\ Len(sends) < MaxSends
    /\ LET r == server_send_dataframe(f) IN
       /\ r.ok
       /\ stream' = Append(stream, Raw(r.bytes))
       /\ sends' = Append(sends, f)
    /\ UNCHANGED <<request, response, conn>>

(* Client::connect on the client side ends in into_ws. *)
ClientConnect ==
    /\ conn = NoConn
    /\ conn' = [NoConn EXCEPT !.at = IF into_ws.panic THEN "panicked" ELSE "client"]
    /\ UNCHANGED <<request, response, stream, sends>>

----------------------------------------------------------------------------
(* The session: a Client split into its Sender and its Receiver            *)
(* (client.rs), the two over handles of one transport (stream.rs), with    *)
(* the shutdown calls of either half and the iterators of ws/receiver.rs.  *)

(* The Shutdown each call hands to the stream. *)
Sender_shutdown == "Write"
Sender_shutdown_all == "Both"
(* Receiver::shutdown with a fault: it shuts both directions. *)
Receiver_shutdown_both == "Both"
Receiver_shutdown == "Read"
Receiver_shutdown_all == "Both"
Client_shutdown_sender == Sender_shutdown
Client_shutdown_receiver == Receiver_shutdown
Client_shutdown == Receiver_shutdown_all

ShutdownCalls ==
    {"Sender::shutdown", "Sender::shutdown_all", "Receiver::shutdown",
     "Receiver::shutdown_all", "Client::shutdown_sender", "Client::shutdown_receiver",
     "Client::shutdown"}

ShutdownHow(call) ==
    CASE call = "Sender::shutdown" -> Sender_shutdown
      [] call = "Sender::shutdown_all" -> Sender_shutdown_all
      [] call = "Receiver::shutdown" -> Receiver_shutdown
      [] call = "Receiver::shutdown_all" -> Receiver_shutdown_all
      [] call = "Client::shutdown_sender" -> Client_shutdown_sender
      [] call = "Client::shutdown_receiver" -> Client_shutdown_receiver
      [] call = "Client::shutdown" -> Client_shutdown

(* WebSocketStream::shutdown(how), that is TcpStream::shutdown: the socket *)
(* is one for every handle cloned from it.                                 *)
stream_shutdown(how, sh) ==
    [sh EXCEPT !.read = @ \/ how \in {"Read", "Both"},
               !.write = @ \/ how \in {"Write", "Both"}]

(* Write for WebSocketStream once the write direction is shut down: the    *)
(* write fails, and write_to returns the error.                            *)
write_on(sh, r) == IF sh.write THEN SendErr("IoError(BrokenPipe)") ELSE r

(* What a receive call with a fault writes: a Pong for a Ping it read. *)
recv_writes_autopong(r) ==
    IF r.ok /\ r.frame.opcode = 9
    THEN <<[bytes |-> write_to(DataFrame_new(TRUE, 10, r.frame.data), FALSE, <<>>).bytes,
            frame |-> DataFrame_new(TRUE, 10, r.frame.data), key |-> <<>>]>>
    ELSE <<>>

(* What a receive call that read r writes to the other direction: the      *)
(* Receiver holds a reader and a buffer, and nothing to write to.          *)
recv_writes(r) == <<>>

(* DataFrameIterator::next and MessageIterator::next: unimplemented!(). *)
iterator_next == [panic |-> TRUE]

(* An entry of the record of what the receive calls returned. *)
Returned(op, r) == [op |-> op, ok |-> r.ok, err |-> r.err, frame |-> r.frame, msg |-> NoMsg]
ReturnedMsg(op, r) == [op |-> op, ok |-> r.ok, err |-> r.err, frame |-> NoFrame, msg |-> r.msg]
Panicked(op) == [op |-> op, ok |-> FALSE, err |-> "panic", frame |-> NoFrame, msg |-> NoMsg]

(* ---- the harness of the session (specification SpecSession) ---- *)

(* The application receives through one operation for the whole session. *)
OnlyOp(op) == \A i \in DOMAIN delivered : delivered[i].op = op

MaxWritten == 2
MaxCalls == 2

(* The frames of the peer: a Ping, a Close, a message in two fragments,    *)
(* and a frame that announces one byte more than is written.               *)
SessionPeerFrames(s) ==
    {[flags |-> FIN, opcode |-> 9, key |-> PeerKey(s), len |-> 1, data |-> <<169>>,
      form |-> "minimal"],
     [flags |-> FIN, opcode |-> 8, key |-> PeerKey(s), len |-> 0, data |-> <<>>,
      form |-> "minimal"],
     [flags |-> 0, opcode |-> 2, key |-> PeerKey(s), len |-> 1, data |-> <<195>>,
      form |-> "minimal"],
     [flags |-> FIN, opcode |-> 0, key |-> PeerKey(s), len |-> 1, data |-> <<169>>,
      form |-> "minimal"],
     [flags |-> FIN, opcode |-> 2, key |-> PeerKey(s), len |-> 2, data |-> <<195>>,
      form |-> "minimal"]}

(* The frames the application sends: a Pong, a Close. *)
SessionSendFrames == {DataFrame_new(TRUE, 10, <<169>>), into_iter(Msg("Close", <<>>))[1]}

(* The peer writes a frame. *)
SessionPeerWrite(f) ==
    /\ ~closed /\ fault = ""
    /\ Len(peer_wrote) < MaxWritten
    /\ wire' = wire \o PeerBytes(f)
    /\ peer_wrote' = Append(peer_wrote, f)
    /\ UNCHANGED <<side, fault, closed, buffer, pc, frames, result, sent, frags, track, ctl>>
    /\ UNCHANGED <<svars, shut, delivered, sends>>

(* The peer closes the transport. *)
SessionPeerClose ==
    /\ ~closed
    /\ closed' = TRUE
    /\ UNCHANGED <<side, fault, wire, buffer, pc, frames, result, sent, frags, track, ctl>>
    /\ UNCHANGED <<svars, xvars>>

(* The application calls recv_dataframe, and the read completes. *)
SessionRecvDataframe ==
    /\ pc = "idle" /\ OnlyOp("dataframe")
    /\ Len(delivered) < MaxCalls
    /\ LET r == recv_dataframe_on(wire, closed, fault, side) IN
       /\ r.err # "Pending"
       /\ wire' = r.rest
       /\ delivered' = Append(delivered, Returned("dataframe", r))
       /\ out' = out \o recv_writes(r)
    /\ UNCHANGED <<side, fault, closed, buffer, pc, frames, result, sent, frags, track, ctl>>
    /\ UNCHANGED <<last, shut, peer_wrote, sends>>

(* The application calls recv_message: the call enters its first read. *)
SessionRecvCall ==
    /\ Len(delivered) < MaxCalls /\ OnlyOp("message")
    /\ RecvCall
    /\ UNCHANGED <<svars, xvars>>

(* A read of recv_message completes; the call returns or reads on. *)
SessionRead ==
    /\ ReadFirst \/ ReadNext
    /\ delivered' = IF pc' = "idle"
                    THEN Append(delivered,
                                ReturnedMsg("message", [ok |-> result'.ok, err |-> result'.err,
                                                        msg |-> result'.msg]))
                    ELSE delivered
    /\ out' = out \o recv_writes(recv_dataframe_on(wire, closed, fault, side))
    /\ UNCHANGED <<last, shut, peer_wrote, sends>>

(* The application receives through incoming_dataframes or                 *)
(* incoming_messages, as the loops of the examples do from their start:    *)
(* the first call of next.                                                 *)
SessionNext(op) ==
    /\ pc = "idle" /\ delivered = <<>>
    /\ delivered' = Append(delivered,
                           IF iterator_next.panic THEN Panicked(op)
                           ELSE Returned(op, recv_dataframe_on(wire, closed, fault, side)))
    /\ UNCHANGED <<rvars, svars, shut, peer_wrote, sends>>

(* SessionSend with a fault: the send empties the reassembly buffer. *)
SessionSend_shared(f, key) ==
    /\ Len(out) < MaxSends
    /\ LET r == write_on(shut, sender_send_dataframe(side, f, key)) IN
       /\ out' = IF r.ok THEN Append(out, [bytes |-> r.bytes, frame |-> f,
                                          key |-> IF side = "client" THEN key ELSE <<>>])
                 ELSE out
       /\ sends' = IF r.ok THEN Append(sends, [frame |-> f, key |-> key]) ELSE sends
       /\ last' = [NoOp EXCEPT !.op = "dataframe", !.ok = r.ok, !.err = r.err]
    /\ buffer' = <<>>
    /\ UNCHANGED <<side, fault, wire, closed, pc, frames, result, sent, frags, track, ctl>>
    /\ UNCHANGED <<shut, peer_wrote, delivered>>

(* The application calls send_dataframe(f) on the Sender. *)
SessionSend(f, key) ==
    /\ Len(out) < MaxSends
    /\ LET r == write_on(shut, sender_send_dataframe(side, f, key)) IN
       /\ out' = IF r.ok THEN Append(out, [bytes |-> r.bytes, frame |-> f,
                                          key |-> IF side = "client" THEN key ELSE <<>>])
                 ELSE out
       /\ sends' = IF r.ok THEN Append(sends, [frame |-> f, key |-> key]) ELSE sends
       /\ last' = [NoOp EXCEPT !.op = "dataframe", !.ok = r.ok, !.err = r.err]
    /\ UNCHANGED <<rvars, shut, peer_wrote, delivered>>

(* A shutdown call.  Reads reach the end of the stream once the read       *)
(* direction is shut down; the bytes that had arrived are still there to   *)
(* read when the BufReader holds them, and gone when the socket held them. *)
SessionShutdown(call, kept) ==
    /\ stream_shutdown(ShutdownHow(call), shut).read # shut.read
       \/ stream_shutdown(ShutdownHow(call), shut).write # shut.write
    /\ shut' = stream_shutdown(ShutdownHow(call), shut)
    /\ IF shut'.read /\ ~shut.read
       THEN closed' = TRUE /\ wire' = (IF kept THEN wire ELSE <<>>)
       ELSE UNCHANGED <<closed, wire>>
    /\ UNCHANGED <<side, fault, buffer, pc, frames, result, sent, frags, track, ctl>>
    /\ UNCHANGED <<svars, peer_wrote, delivered, sends>>

----------------------------------------------------------------------------
(* The Receiver across errors, and across Client::split and Client::new    *)
(* (specification SpecRecover): recv_message is called again after a call  *)
(* that failed, and a transport error may pass.                            *)

(* Receiver::new with a fault: the stream is wrapped in a BufReader of its *)
(* own, and what the given reader had buffered is dropped.                 *)
Receiver_new_unbuffered(reader) == [inner |-> [reader EXCEPT !.buf = <<>>], buffer |-> <<>>]

(* Receiver::new(reader): the reader as it is given, an empty buffer. *)
Receiver_new(reader) == [inner |-> reader, buffer |-> <<>>]

(* Client::new with a fault: the Receiver is made anew around its reader. *)
Client_new_fresh(sender, receiver) ==
    [sender |-> sender, receiver |-> Receiver_new(receiver.inner)]

(* Client::new(sender, receiver) *)
Client_new(sender, receiver) == [sender |-> sender, receiver |-> receiver]

(* Client::split: (self.sender, self.receiver) *)
split(client) == <<client.sender, client.receiver>>

(* The frames of the peer: a message in fragments, a whole data frame (no  *)
(* continuation, a protocol error inside a message), a Ping.               *)
RecoverFrames(s) ==
    {[flags |-> fl, opcode |-> op, key |-> PeerKey(s), len |-> 1, data |-> <<195>>,
      form |-> "minimal"] : fl \in {0, FIN}, op \in {0, 2}}
    \cup {[flags |-> FIN, opcode |-> 9, key |-> PeerKey(s), len |-> 1, data |-> <<169>>,
           form |-> "minimal"]}

(* What is noted of a call that returned, or of a split: the frames        *)
(* returned and the buffer left (held before, for a split).                *)
Noted(op, ret, held) ==
    [op |-> op, ok |-> ret.ok, err |-> ret.err, frames |-> ret.frames, held |-> held]

Noted_split == \E i \in DOMAIN delivered : delivered[i].op = "split"

(* recv_message is called again. *)
RecoverCall ==
    /\ Cardinality({i \in DOMAIN delivered : delivered[i].op = "recv_message"}) < MaxCalls
    /\ RecvCall
    /\ UNCHANGED <<svars, xvars>>

(* A read of the call completes. *)
RecoverRead ==
    /\ ReadFirst \/ ReadNext
    /\ delivered' = IF pc' = "idle"
                    THEN Append(delivered, Noted("recv_message", frames', buffer'))
                    ELSE delivered
    /\ UNCHANGED <<svars, shut, peer_wrote, sends>>

(* The error of the transport passes (a timeout, an interrupted read). *)
FaultClears ==
    /\ fault # "" /\ pc = "idle"
    /\ fault' = ""
    /\ UNCHANGED <<side, wire, closed, buffer, pc, frames, result, sent, frags, track, ctl>>
    /\ UNCHANGED <<svars, xvars>>

(* The application splits the Client and builds it again from the halves. *)
SplitNew ==
    /\ pc = "idle" /\ ~Noted_split
    /\ LET halves == split(Client_new([inner |-> out],
                                      [inner |-> wire, buffer |-> buffer]))
           client == Client_new(halves[1], halves[2])
       IN /\ out' = client.sender.inner
          /\ wire' = client.receiver.inner
          /\ buffer' = client.receiver.buffer
    /\ delivered' = Append(delivered, Noted("split", FramesOk(<<>>), buffer))
    /\ UNCHANGED <<side, fault, closed, pc, frames, result, sent, frags, track, ctl>>
    /\ UNCHANGED <<last, shut, peer_wrote, sends>>

----------------------------------------------------------------------------
(* The client's upgrade (specification SpecUpgrade): the response of the   *)
(* server is read through a BufReader, and the Receiver is built on that   *)
(* BufReader (http/mod.rs, client/receiver.rs).                            *)

NoHandshake == [at |-> "none", responded |-> FALSE, buf |-> <<>>, left |-> 0]

(* BufReader::new(stream): nothing buffered yet. *)
BufReader_new == [buf |-> <<>>]

(* "HTTP/1.1 101\r\n\r\n" *)
ResponseHead == <<72, 84, 84, 80, 47, 49, 46, 49, 32, 49, 48, 49, 13, 10, 13, 10>>

(* The number of bytes up to and with the first empty line, 0 without one. *)
RECURSIVE header_end(_, _)
header_end(bytes, i) ==
    IF i + 3 > Len(bytes) THEN 0
    ELSE IF SubSeq(bytes, i, i + 3) = <<13, 10, 13, 10>> THEN i + 3
    ELSE header_end(bytes, i + 1)

(* hyper's parse_response(reader): with the whole head buffered, the head  *)
(* is consumed and what the reader buffered after it stays buffered.       *)
parse_response(reader) ==
    LET n == header_end(reader.buf, 1) IN
    [ok |-> n > 0, reader |-> [reader EXCEPT !.buf = Drop(reader.buf, n)]]

(* Message<Response>::new(reader: &mut BufReader<R>) *)
Message_new(reader) == parse_response(reader)

(* The frames the server writes after its response. *)
UpgradeFrames ==
    {[flags |-> FIN, opcode |-> 1, key |-> <<>>, len |-> 1, data |-> <<104>>, form |-> "minimal"],
     [flags |-> FIN, opcode |-> 2, key |-> <<>>, len |-> 2, data |-> <<13, 10>>,
      form |-> "minimal"],
     [flags |-> FIN, opcode |-> 9, key |-> <<>>, len |-> 0, data |-> <<>>, form |-> "minimal"]}

(* The client wrote its request and waits for the response. *)
UpgradeConnect ==
    /\ hs = NoHandshake
    /\ hs' = [hs EXCEPT !.at = "sent", !.buf = BufReader_new.buf]
    /\ UNCHANGED <<wire, buffer, peer_wrote, delivered>>

UpgradePeerRespond ==
    /\ hs.at = "sent" /\ ~hs.responded
    /\ wire' = wire \o ResponseHead
    /\ hs' = [hs EXCEPT !.responded = TRUE]
    /\ UNCHANGED <<buffer, peer_wrote, delivered>>

UpgradePeerFrame(f) ==
    /\ hs.responded
    /\ Len(peer_wrote) < MaxFrags
    /\ wire' = wire \o PeerBytes(f)
    /\ peer_wrote' = Append(peer_wrote, f)
    /\ UNCHANGED <<hs, buffer, delivered>>

(* The BufReader reads from the stream while the head is not whole: the    *)
(* read returns any number of the bytes that have arrived.                 *)
UpgradeFill(n) ==
    /\ hs.at = "sent"
    /\ ~Message_new([buf |-> hs.buf]).ok
    /\ n \in 1..Len(wire)
    /\ hs' = [hs EXCEPT !.buf = hs.buf \o Take(wire, n)]
    /\ wire' = Drop(wire, n)
    /\ UNCHANGED <<buffer, peer_wrote, delivered>>

UpgradeParse ==
    /\ hs.at = "sent"
    /\ LET r == Message_new([buf |-> hs.buf]) IN
       /\ r.ok
       /\ hs' = [hs EXCEPT !.at = "parsed", !.buf = r.reader.buf, !.left = Len(r.reader.buf)]
    /\ UNCHANGED <<wire, buffer, peer_wrote, delivered>>

(* Receiver::new(reader) on the BufReader of the handshake. *)
UpgradeReceiver ==
    /\ hs.at = "parsed"
    /\ LET rx == Receiver_new([buf |-> hs.buf]) IN
       /\ hs' = [hs EXCEPT !.at = "receiver", !.buf = rx.inner.buf]
       /\ buffer' = rx.buffer
    /\ UNCHANGED <<wire, peer_wrote, delivered>>

(* recv_dataframe reads a frame through the BufReader: the bytes buffered, *)
(* then those of the stream.                                               *)
UpgradeRecv ==
    /\ hs.at = "receiver"
    /\ LET r == recv_dataframe(hs.buf \o wire, FALSE, "client")
           used == Len(hs.buf) + Len(wire) - Len(r.rest)
       IN /\ r.err # "Pending"
          /\ delivered' = Append(delivered, IF r.ok THEN r.frame ELSE [err |-> r.err])
          /\ hs' = [hs EXCEPT !.buf = Drop(hs.buf, used)]
          /\ wire' = IF used > Len(hs.buf) THEN Drop(wire, used - Len(hs.buf)) ELSE wire
    /\ UNCHANGED <<buffer, peer_wrote>>

----------------------------------------------------------------------------
(* Sec-WebSocket-Extensions (extensions/mod.rs, extensions/deflate.rs,     *)
(* header/extensions.rs).  A text is the sequence of its words and of the  *)
(* characters between them: ";", ",", "=" and " ".                         *)

RECURSIVE find(_, _, _)
find(s, c, i) == IF i > Len(s) THEN 0 ELSE IF s[i] = c THEN i ELSE find(s, c, i + 1)

(* str::split(c): the pieces between the occurrences of c. *)
RECURSIVE str_split(_, _)
str_split(s, c) ==
    LET i == find(s, c, 1) IN
    IF i = 0 THEN <<s>> ELSE <<SubSeq(s, 1, i - 1)>> \o str_split(Drop(s, i), c)

(* str::splitn(n, c): at most n pieces, the last one being the rest. *)
RECURSIVE splitn(_, _, _)
splitn(n, s, c) ==
    LET i == find(s, c, 1) IN
    IF n = 0 THEN <<>>
    ELSE IF n = 1 \/ i = 0 THEN <<s>>
    ELSE <<SubSeq(s, 1, i - 1)>> \o splitn(n - 1, Drop(s, i), c)

(* str::trim *)
RECURSIVE trim_start(_)
trim_start(s) == IF s # <<>> /\ s[1] = " " THEN trim_start(Tail(s)) ELSE s
RECURSIVE trim_end(_)
trim_end(s) ==
    IF s # <<>> /\ s[Len(s)] = " " THEN trim_end(SubSeq(s, 1, Len(s) - 1)) ELSE s
trim(s) == trim_end(trim_start(s))

(* DeflateConfig::default(): the four settings, all None. *)
DeflateConfig_default ==
    [server_no_context_takeover |-> None, client_no_context_takeover |-> None,
     server_max_window_bits |-> None, client_max_window_bits |-> None]

Custom(name, params) ==
    [kind |-> "Custom", name |-> name, params |-> params, config |-> DeflateConfig_default]
Deflate(config) ==
    [kind |-> "Deflate", name |-> <<>>, params |-> <<>>, config |-> config]

(* The closure of from_str over a parameter: x.splitn(1, '=') trimmed,     *)
(* name the first item, value the next one if there is one.                *)
Parameter_from(x) ==
    LET pair == splitn(1, x, "=") IN
    [name |-> trim(pair[1]),
     value |-> IF Len(pair) >= 2 THEN Some(trim(pair[2])) ELSE None]

(* FromStr for Extension: the pieces between ";", trimmed; the first is    *)
(* the name.  The name "deflate" ends in unimplemented!(); every other     *)
(* name gives a Custom extension.                                          *)
from_str(s) ==
    LET e == str_split(s, ";")
        name == trim(e[1])
    IN IF name = <<"deflate">> THEN [panic |-> TRUE, ext |-> Custom(<<>>, <<>>)]
       ELSE [panic |-> FALSE,
             ext |-> Custom(name, [i \in 1..(Len(e) - 1) |-> Parameter_from(e[i + 1])])]

(* Display for Parameter *)
fmt_Parameter(p) == p.name \o (IF p.value.some THEN <<"=">> \o p.value.list ELSE <<>>)

(* Display for CustomExtension *)
RECURSIVE fmt_params(_, _)
fmt_params(ps, i) ==
    IF i > Len(ps) THEN <<>>
    ELSE <<";", " ">> \o fmt_Parameter(ps[i]) \o fmt_params(ps, i + 1)
fmt_CustomExtension(x) == x.name \o fmt_params(x.params, 1)

(* Display for Extension *)
fmt_Extension(x) ==
    IF x.kind = "Custom" THEN fmt_CustomExtension(x)
    ELSE <<"permessage-deflate">>
         \o (IF x.config.server_no_context_takeover.some
             THEN <<";", " ", "server_no_context_takeover">> ELSE <<>>)
         \o (IF x.config.client_no_context_takeover.some
             THEN <<";", " ", "client_no_context_takeover">> ELSE <<>>)
         \o (IF x.config.server_max_window_bits.some
             THEN <<";", " ", "server_max_window_bits", "=",
                    ToString(x.config.server_max_window_bits.list)>>
             ELSE <<>>)
         \o (IF x.config.client_max_window_bits.some
             THEN <<";", " ", "client_max_window_bits", "=",
                    ToString(x.config.client_max_window_bits.list)>>
             ELSE <<>>)

(* hyper's from_comma_delimited: the pieces between ",", trimmed, the      *)
(* empty ones left out, each parsed with from_str.                         *)
RECURSIVE parse_parts(_, _)
parse_parts(parts, i) ==
    IF i > Len(parts) THEN [panic |-> FALSE, list |-> <<>>]
    ELSE IF trim(parts[i]) = <<>> THEN parse_parts(parts, i + 1)
    ELSE IF from_str(trim(parts[i])).panic THEN [panic |-> TRUE, list |-> <<>>]
    ELSE [panic |-> parse_parts(parts, i + 1).panic,
          list |-> <<from_str(trim(parts[i])).ext>> \o parse_parts(parts, i + 1).list]
from_comma_delimited(raw) == parse_parts(str_split(raw, ","), 1)

(* hyper's fmt_comma_delimited: the parts, ", " between. *)
RECURSIVE fmt_comma_delimited(_, _)
fmt_comma_delimited(parts, i) ==
    IF i > Len(parts) THEN <<>>
    ELSE (IF i > 1 THEN <<",", " ">> ELSE <<>>) \o fmt_Extension(parts[i])
         \o fmt_comma_delimited(parts, i + 1)

(* Header::parse_header and HeaderFormat::fmt_header of WebSocketExtensions *)
parse_header(raw) == from_comma_delimited(raw)
fmt_header(value) == fmt_comma_delimited(value, 1)

(* ---- the harness of the header (specification SpecExtensions) ---- *)

NoExtensions ==
    [at |-> "none", raw |-> <<>>, config |-> DeflateConfig_default, made |-> FALSE,
     parsed |-> <<>>, panic |-> FALSE, text |-> <<>>]

ExtensionNames == {<<"foo">>, <<"bar">>, <<"deflate">>, <<"permessage-deflate">>}
ParameterTexts ==
    {<<"baz">>, <<"qux", "=", "quux">>,
     <<"server_no_context_takeover">>, <<"client_no_context_takeover">>,
     <<"server_max_window_bits", "=", "10">>, <<"client_max_window_bits", "=", "7">>}
ExtensionTexts ==
    ExtensionNames
    \cup {n \o <<";", " ">> \o p : n \in ExtensionNames, p \in ParameterTexts}
    \cup {n \o <<";", " ">> \o p \o <<";", " ">> \o q :
            n \in ExtensionNames, p \in ParameterTexts, q \in ParameterTexts}
HeaderTexts ==
    ExtensionTexts
    \cup {<<"foo", ",", " ", "bar", ";", " ", "baz", ";", " ", "qux", "=", "quux">>,
          <<"foo", ";", "baz", ",", "bar">>,
          <<" ", "foo", " ", ";", " ", "qux", " ", "=", " ", "quux", " ">>}
DeflateConfigs ==
    [server_no_context_takeover : {None, Some(<<>>)},
     client_no_context_takeover : {None, Some(<<>>)},
     server_max_window_bits : {None, Some(8), Some(15)},
     client_max_window_bits : {None, Some(10)}]

(* A header value arrives. *)
ExtReceive(raw) ==
    /\ exts = NoExtensions
    /\ exts' = [exts EXCEPT !.at = "raw", !.raw = raw]

(* A permessage-deflate extension is made and formatted: what the peer of  *)
(* this code receives.                                                     *)
ExtDeflate(config) ==
    /\ exts = NoExtensions
    /\ exts' = [exts EXCEPT !.at = "raw", !.raw = fmt_header(<<Deflate(config)>>),
                            !.config = config, !.made = TRUE]

ExtParse ==
    /\ exts.at = "raw"
    /\ LET r == parse_header(exts.raw) IN
       exts' = [exts EXCEPT !.at = "parsed", !.parsed = r.list, !.panic = r.panic]

ExtFormat ==
    /\ exts.at = "parsed" /\ ~exts.panic
    /\ exts' = [exts EXCEPT !.at = "formatted", !.text = fmt_header(exts.parsed)]

----------------------------------------------------------------------------
(* Specifications. *)

RecvIdle ==
    /\ side = "client" /\ fault = "" /\ wire = <<>> /\ closed = FALSE /\ buffer = <<>> /\ pc = "idle"
    /\ frames = NoFrames /\ result = NoResult /\ sent = NoPeerFrame
    /\ frags = <<>> /\ track = FALSE /\ ctl = FALSE

HeaderIdle ==
    /\ hin = [kind |-> "header", header |-> NoHeader, bytes |-> <<>>]
    /\ wres = NoWrite /\ rres = NoRead /\ hpc = "idle"

NoShut == [read |-> FALSE, write |-> FALSE]
UpgradeRest ==
    UNCHANGED <<hvars, side, fault, closed, pc, frames, result, sent, frags, track, ctl,
                svars, shut, sends, request, response, stream, conn, exts>>
UpgradeIdle == conn = NoConn /\ hs = NoHandshake /\ exts = NoExtensions
SessionIdle == shut = NoShut /\ peer_wrote = <<>> /\ delivered = <<>> /\ sends = <<>>

Init == RecvInit /\ HeaderIdle /\ SendInit /\ SessionIdle /\ HandshakeIdle /\ UpgradeIdle

Next ==
    \/ \E f \in PeerFrames(side) : PeerSend(f) /\ UNCHANGED <<hvars, svars, xvars, kvars>>
    \/ PeerClose /\ UNCHANGED <<hvars, svars, xvars, kvars>>
    \/ \E e \in PeerFaults : PeerFail(e) /\ UNCHANGED <<hvars, svars, xvars, kvars>>
    \/ RecvCall /\ UNCHANGED <<hvars, svars, xvars, kvars>>
    \/ ReadFirst /\ UNCHANGED <<hvars, svars, xvars, kvars>>
    \/ ReadNext /\ UNCHANGED <<hvars, svars, xvars, kvars>>

Spec == Init /\ [][Next]_vars

HeaderNext ==
    \/ WriteHeader /\ UNCHANGED <<rvars, svars, xvars, kvars>>
    \/ ReadWritten /\ UNCHANGED <<rvars, svars, xvars, kvars>>
    \/ ReadForged /\ UNCHANGED <<rvars, svars, xvars, kvars>>

InitHeader == HeaderInit /\ RecvIdle /\ SendInit /\ SessionIdle /\ HandshakeIdle /\ UpgradeIdle
SpecHeader == InitHeader /\ [][HeaderNext]_vars

SendNext ==
    \/ \E f \in SendFrames, key \in SendKeys : SendDataframe(f, key) /\ UNCHANGED <<hvars, rvars, xvars, kvars>>
    \/ \E m \in SendMessages, key \in SendKeys : SendMessage(m, key) /\ UNCHANGED <<hvars, rvars, xvars, kvars>>
    \/ PeerReceive /\ UNCHANGED <<hvars, rvars, xvars, kvars>>
    \/ \E m \in SendMessages : FromDataframes(m) /\ UNCHANGED <<hvars, rvars, xvars, kvars>>

InitSend == RecvInit /\ HeaderIdle /\ SendInit /\ SessionIdle /\ HandshakeIdle /\ UpgradeIdle
SpecSend == InitSend /\ [][SendNext]_vars

HandshakeNext ==
    \/ \E host \in HandshakeHosts, protocols \in OfferedProtocols, key \in HandshakeKeys :
          NewRequest(host, protocols, key) /\ UNCHANGED <<hvars, rvars, svars, xvars, bvars>>
    \/ Accept /\ UNCHANGED <<hvars, rvars, svars, xvars, bvars>>
    \/ \E protocols \in AcceptedProtocols :
          AcceptProtocols(protocols) /\ UNCHANGED <<hvars, rvars, svars, xvars, bvars>>
    \/ Serialize /\ UNCHANGED <<hvars, rvars, svars, xvars, bvars>>
    \/ ServerResponse /\ UNCHANGED <<hvars, rvars, svars, xvars, bvars>>
    \/ \E order \in HeaderOrders : ServerSend(order) /\ UNCHANGED <<hvars, rvars, svars, xvars, bvars>>

SessionSteps ==
    \/ \E f \in SessionPeerFrames(side) : SessionPeerWrite(f) /\ UNCHANGED <<hvars, kvars>>
    \/ SessionPeerClose /\ UNCHANGED <<hvars, kvars>>
    \/ SessionRecvDataframe /\ UNCHANGED <<hvars, kvars>>
    \/ SessionRecvCall /\ UNCHANGED <<hvars, kvars>>
    \/ SessionRead /\ UNCHANGED <<hvars, kvars>>
    \/ \E op \in {"incoming_dataframes", "incoming_messages"} :
          SessionNext(op) /\ UNCHANGED <<hvars, kvars>>
    \/ \E f \in SessionSendFrames : SessionSend(f, MaskKey) /\ UNCHANGED <<hvars, kvars>>
    \/ \E call \in ShutdownCalls, kept \in (IF wire = <<>> THEN {TRUE} ELSE BOOLEAN) :
          SessionShutdown(call, kept) /\ UNCHANGED <<hvars, kvars>>

InitSession == RecvIdle /\ HeaderIdle /\ SendInit /\ SessionIdle /\ HandshakeIdle /\ UpgradeIdle
SpecSession == InitSession /\ [][SessionSteps]_vars

RecoverSteps ==
    \/ \E f \in RecoverFrames(side) : PeerSend(f) /\ UNCHANGED <<hvars, svars, xvars, kvars>>
    \/ PeerClose /\ UNCHANGED <<hvars, svars, xvars, kvars>>
    \/ PeerFail("TimedOut") /\ UNCHANGED <<hvars, svars, xvars, kvars>>
    \/ FaultClears /\ UNCHANGED <<hvars, kvars>>
    \/ RecoverCall /\ UNCHANGED <<hvars, kvars>>
    \/ RecoverRead /\ UNCHANGED <<hvars, kvars>>
    \/ SplitNew /\ UNCHANGED <<hvars, kvars>>

InitRecover == RecvInit /\ HeaderIdle /\ SendInit /\ SessionIdle /\ HandshakeIdle /\ UpgradeIdle
SpecRecover == InitRecover /\ [][RecoverSteps]_vars

ServerSteps ==
    \/ ServerAccept /\ UNCHANGED <<hvars, rvars, svars, shut, peer_wrote, delivered, hs, exts>>
    \/ \E req \in PeerRequests :
          ServerReadRequest(req)
          /\ UNCHANGED <<hvars, rvars, svars, shut, peer_wrote, delivered, hs, exts>>
    \/ ServerNew /\ UNCHANGED <<hvars, rvars, svars, shut, peer_wrote, delivered, hs, exts>>
    \/ ServerBadRequest /\ UNCHANGED <<hvars, rvars, svars, shut, peer_wrote, delivered, hs, exts>>
    \/ \E order \in HeaderOrders, failing \in SendFailures :
          ServerResponseSend(order, failing)
          /\ UNCHANGED <<hvars, rvars, svars, shut, peer_wrote, delivered, hs, exts>>
    \/ \E f \in ServerFrames :
          ServerClientSend(f)
          /\ UNCHANGED <<hvars, rvars, svars, shut, peer_wrote, delivered, hs, exts>>
    \/ ClientConnect /\ UNCHANGED <<hvars, rvars, svars, shut, peer_wrote, delivered, hs, exts>>

InitServer == RecvIdle /\ HeaderIdle /\ SendInit /\ SessionIdle /\ HandshakeIdle /\ UpgradeIdle
SpecServer == InitServer /\ [][ServerSteps]_vars

UpgradeSteps ==
    \/ UpgradeConnect /\ UpgradeRest
    \/ UpgradePeerRespond /\ UpgradeRest
    \/ \E f \in UpgradeFrames : UpgradePeerFrame(f) /\ UpgradeRest
    \/ \E n \in 1..Len(wire) : UpgradeFill(n) /\ UpgradeRest
    \/ UpgradeParse /\ UpgradeRest
    \/ UpgradeReceiver /\ UpgradeRest
    \/ UpgradeRecv /\ UpgradeRest

InitUpgrade == RecvIdle /\ HeaderIdle /\ SendInit /\ SessionIdle /\ HandshakeIdle /\ UpgradeIdle
SpecUpgrade == InitUpgrade /\ [][UpgradeSteps]_vars

ExtensionsRest ==
    UNCHANGED <<hvars, rvars, svars, xvars, request, response, stream, conn, hs>>
ExtensionsSteps ==
    \/ \E raw \in HeaderTexts : ExtReceive(raw) /\ ExtensionsRest
    \/ \E config \in DeflateConfigs : ExtDeflate(config) /\ ExtensionsRest
    \/ ExtParse /\ ExtensionsRest
    \/ ExtFormat /\ ExtensionsRest

InitExtensions ==
    RecvIdle /\ HeaderIdle /\ SendInit /\ SessionIdle /\ HandshakeIdle /\ UpgradeIdle
SpecExtensions == InitExtensions /\ [][ExtensionsSteps]_vars

InitHandshake == RecvIdle /\ HeaderIdle /\ SendInit /\ SessionIdle /\ HandshakeIdle /\ UpgradeIdle
SpecHandshake == InitHandshake /\ [][HandshakeNext]_vars

----------------------------------------------------------------------------
(* What the properties say about the frames the peer wrote. *)

Bit(flags, b) == (flags \div b) % 2 = 1
Final(f) == Bit(f.flags, 128)
NoRsv(f) == f.flags % 128 = 0
IsControl(f) == f.opcode >= 8

(* The DataFrame a peer frame has to be received as. *)
AsDataFrame(f) ==
    [finished |-> Bit(f.flags, 128),
     reserved |-> <<Bit(f.flags, 64), Bit(f.flags, 32), Bit(f.flags, 16)>>,
     opcode |-> f.opcode,
     data |-> f.data]
AsDataFrames(fs) == [i \in 1..Len(fs) |-> AsDataFrame(fs[i])]

RECURSIVE Concat(_)
Concat(fs) == IF fs = <<>> THEN <<>> ELSE fs[1].data \o Concat(Tail(fs))

(* The frame the peer wrote last is whole on the wire, at its front. *)
InFlight == sent # NoPeerFrame /\ wire = PeerBytes(sent)

(* A read of recv_message_dataframes completes in this step. *)
ReadStep == pc # "idle" /\ (pc' = "idle" \/ buffer' # buffer)

(* A fragmented message as the protocol wants it: Text or Binary first,    *)
(* continuations after it, FIN on the last frame only, no reserved bit.    *)
ValidMessage(fs) ==
    /\ fs # <<>>
    /\ fs[1].opcode \in {1, 2}
    /\ \A i \in 2..Len(fs) : fs[i].opcode = 0
    /\ \A i \in 1..Len(fs) : Final(fs[i]) = (i = Len(fs))
    /\ \A i \in 1..Len(fs) : NoRsv(fs[i])

----------------------------------------------------------------------------
(* C1: a control frame read while a fragmented message is in progress is   *)
(* returned alone and at once, the buffered fragments stay as they are,    *)
(* and the read of the final continuation frame returns every fragment,    *)
(* those before and those after the control frame, in the order written.   *)
C1_ControlStep ==
    (pc = "loop" /\ InFlight /\ WellFormed(sent, side) /\ IsControl(sent) /\ ReadStep)
    => /\ buffer # <<>>
       /\ buffer' = buffer
       /\ track => buffer = AsDataFrames(frags)
       /\ pc' = "idle"
       /\ frames' = FramesOk(<<AsDataFrame(sent)>>)
       /\ (NoRsv(sent) /\ sent.opcode = 9) => result' = MsgOk(Msg("Ping", sent.data))

C1_FinalStep ==
    (pc = "loop" /\ track /\ ctl /\ InFlight /\ sent.opcode = 0 /\ Final(sent) /\ ReadStep)
    => /\ pc' = "idle"
       /\ buffer' = <<>>
       /\ frames' = FramesOk(AsDataFrames(frags))
       /\ ValidMessage(frags) /\ frags[1].opcode = 2
            => result' = MsgOk(Msg("Binary", Concat(frags)))
       /\ ValidMessage(frags) /\ frags[1].opcode = 1 /\ Utf8Valid(Concat(frags))
            => result' = MsgOk(Msg("Text", Concat(frags)))

C1_ControlFirst == [][C1_ControlStep /\ C1_FinalStep]_vars

C1_Witness ==
    /\ pc = "idle" /\ track /\ ctl
    /\ Len(frags) = 3 /\ sent = frags[3]
    /\ result = MsgOk(Msg("Binary", <<195, 169, 195>>))

(* C2 as stated: a well-formed fragment sequence always comes back as one  *)
(* message of the first frame's kind with the payloads joined.             *)
C2_EveryPayload ==
    (pc = "idle" /\ track /\ ValidMessage(frags) /\ sent = frags[Len(frags)])
    => result = MsgOk(Msg(IF frags[1].opcode = 1 THEN "Text" ELSE "Binary", Concat(frags)))

(* C2: a well-formed fragment sequence comes back, once its final frame is *)
(* read and not before, as one message of the first frame's kind with the  *)
(* payloads joined in the order written; a Text message whose joined       *)
(* payload is not UTF-8 comes back as an error instead.                    *)
C2_Reassembly ==
    /\ (pc = "idle" /\ track /\ ValidMessage(frags) /\ sent = frags[Len(frags)])
        => /\ frames = FramesOk(AsDataFrames(frags))
           /\ buffer = <<>>
           /\ wire = <<>>
           /\ result = IF frags[1].opcode = 2 THEN MsgOk(Msg("Binary", Concat(frags)))
                       ELSE IF Utf8Valid(Concat(frags)) THEN MsgOk(Msg("Text", Concat(frags)))
                       ELSE result
           /\ (frags[1].opcode = 1 /\ ~Utf8Valid(Concat(frags))) => ~result.ok
    /\ (track /\ frags # <<>> /\ sent = frags[Len(frags)] /\ ~Final(sent)
            /\ WellFormed(sent, side) /\ frags[1].opcode \in {1, 2})
        => /\ ~frames.ok /\ ~result.ok
           /\ (pc = "idle" => (closed \/ fault # ""))

C2_Witness ==
    /\ pc = "idle" /\ track /\ ValidMessage(frags)
    /\ Len(frags) = 3 /\ sent = frags[3]
    /\ frags[1].opcode = 1 /\ frags[1].data = <<195>>
    /\ result = MsgOk(Msg("Text", <<195, 169>>))

(* C3: with an empty buffer, a continuation frame makes recv_message       *)
(* return a ProtocolError, and the buffer is empty afterwards.             *)
C3_Step ==
    (pc = "first" /\ InFlight /\ WellFormed(sent, side) /\ sent.opcode = 0 /\ ReadStep)
    => /\ buffer = <<>>
       /\ buffer' = <<>>
       /\ pc' = "idle"
       /\ frames' = FramesErr("ProtocolError")
       /\ result' = MsgErr("ProtocolError")

C3_UnexpectedContinuation == [][C3_Step]_vars

C3_Witness ==
    /\ pc = "idle" /\ buffer = <<>> /\ wire = <<>>
    /\ sent.opcode = 0 /\ sent.data = <<195>> /\ WellFormed(sent, side) /\ frags = <<sent>>
    /\ result = MsgErr("ProtocolError")

(* C4: while a fragmented message is in progress, a frame with opcode 1..7 *)
(* makes recv_message return a ProtocolError and no message.               *)
C4_Step ==
    (pc = "loop" /\ InFlight /\ WellFormed(sent, side) /\ sent.opcode \in 1..7 /\ ReadStep)
    => /\ pc' = "idle"
       /\ frames' = FramesErr("ProtocolError")
       /\ result' = MsgErr("ProtocolError")

C4_UnexpectedOpcode == [][C4_Step]_vars

C4_Witness ==
    /\ pc = "idle" /\ buffer # <<>> /\ wire = <<>>
    /\ sent.opcode = 2 /\ Final(sent) /\ WellFormed(sent, side)
    /\ result = MsgErr("ProtocolError")

(* C5: a message with a reserved bit set in its first frame or in any      *)
(* continuation frame, and a control frame with one, come back as a        *)
(* ProtocolError; no frame of a returned message has a reserved bit set.   *)
C5_ReservedBits ==
    /\ result.ok => \A i \in 1..Len(frames.frames) : frames.frames[i].reserved = Clear
    /\ (pc = "idle" /\ track /\ frags # <<>> /\ sent = frags[Len(frags)] /\ Final(sent)
            /\ \E i \in 1..Len(frags) : ~NoRsv(frags[i]))
        => result = MsgErr("ProtocolError")
    /\ (pc = "idle" /\ sent # NoPeerFrame /\ WellFormed(sent, side) /\ IsControl(sent)
            /\ ~NoRsv(sent))
        => result = MsgErr("ProtocolError")

C5_Witness ==
    /\ pc = "idle" /\ track /\ Len(frags) = 3 /\ sent = frags[3]
    /\ frags[1].opcode = 2 /\ NoRsv(frags[1]) /\ ~NoRsv(frags[2]) /\ sent.flags = FIN
    /\ frames.ok
    /\ result = MsgErr("ProtocolError")

----------------------------------------------------------------------------
(* What the properties say about headers and header bytes. *)

(* The header given to write_header, and the fields of the bytes given to  *)
(* read_header as the wire format lays them out.                           *)
GivenHeader == hin.header
GivenOpcode == hin.bytes[1] % 16
GivenFin == hin.bytes[1] >= 128
GivenMarker == hin.bytes[2] % 128
GivenExt16 == hin.bytes[3] * 256 + hin.bytes[4]
GivenExt64Below65536 == \A i \in 3..8 : hin.bytes[i] = 0

(* The headers that survive the trip: data headers, and control headers    *)
(* that are final and announce at most 125 bytes.                          *)
RoundTrips(H) ==
    \/ H.opcode <= 7
    \/ H.opcode <= 15 /\ Bit(H.flags, 128) /\ U64Leq(H.len, 125)

(* C6 as stated: every header with an opcode of 0..15 is written, and read *)
(* back equal.                                                             *)
C6_EveryHeader ==
    (hin.kind = "header" /\ GivenHeader.opcode <= 15 /\ hpc # "input")
    => /\ wres.ok
       /\ hpc = "read" => (rres.ok /\ rres.header = GivenHeader)

(* C6: a header with a data opcode (0..7), and a header with a control     *)
(* opcode (8..15) that has FIN set and a length of at most 125, is written *)
(* by write_header and read back equal by read_header, with no byte left   *)
(* over; no other header comes back from read_header.                      *)
C6_RoundTrip ==
    (hin.kind = "header" /\ hpc # "input")
    => /\ RoundTrips(GivenHeader)
            => /\ wres.ok
               /\ hpc = "read" => rres = ReadOk(GivenHeader, <<>>)
       /\ (~RoundTrips(GivenHeader) /\ hpc = "read") => ~rres.ok

C6_Witness ==
    /\ hpc = "read" /\ hin.kind = "header"
    /\ GivenHeader = [flags |-> 240, opcode |-> 2, mask |-> MaskKey,
                      len |-> <<65535, 65535, 65535, 65535>>]
    /\ rres = ReadOk(GivenHeader, <<>>)

(* C7: write_header refuses an opcode above 15 and a control opcode with a *)
(* length of 126 or more, and writes for every other header: the flag bits *)
(* plus the opcode; the MASK bit plus the length marker (the length up to  *)
(* 125, 126 up to 65535, 127 above); the length big-endian in 0, 2 or 8    *)
(* bytes; the 4 key bytes if there is a key: 2, 4 or 10 bytes, plus 4.     *)
C7_Layout ==
    (hin.kind = "header" /\ hpc # "input")
    => LET H == GivenHeader
           b == wres.bytes
           masked == H.mask # <<>>
           ext == IF U64Leq(H.len, 125) THEN 0 ELSE IF U64Leq(H.len, 65535) THEN 2 ELSE 8
           marker == IF ext = 0 THEN H.len[4] ELSE IF ext = 2 THEN 126 ELSE 127
       IN
       /\ wres.ok = (H.opcode <= 15 /\ ~(H.opcode >= 8 /\ U64Geq(H.len, 126)))
       /\ ~wres.ok => b = <<>>
       /\ wres.ok =>
            /\ Len(b) = 2 + ext + (IF masked THEN 4 ELSE 0)
            /\ Len(b) \in {2, 4, 10, 6, 8, 14}
            /\ b[1] = H.flags + H.opcode
            /\ b[2] = (IF masked THEN 128 ELSE 0) + marker
            /\ ext = 2 => b[3] * 256 + b[4] = H.len[4]
            /\ ext = 8 => \A j \in 1..4 : b[2 * j + 1] * 256 + b[2 * j + 2] = H.len[j]
            /\ masked => SubSeq(b, Len(b) - 3, Len(b)) = H.mask

C7_Witness ==
    /\ hpc = "written" /\ hin.kind = "header"
    /\ GivenHeader = [flags |-> FIN, opcode |-> 1, mask |-> MaskKey, len |-> U64Of(65536)]
    /\ wres = WriteOk(<<129, 255, 0, 0, 0, 0, 0, 1, 0, 0, 55, 250, 33, 61>>)

(* C8: read_header returns a DataFrameError and no header for a 16-bit     *)
(* extended length of 125 or less and for a 64-bit extended length of      *)
(* 65535 or less.                                                          *)
C8_NonMinimal ==
    (hin.kind = "bytes" /\ hpc = "read"
        /\ \/ GivenMarker = 126 /\ GivenExt16 <= 125
           \/ GivenMarker = 127 /\ GivenExt64Below65536)
    => /\ ~rres.ok
       /\ rres.err = "DataFrameError"
       /\ rres.header = NoHeader

C8_Witness ==
    /\ hpc = "read" /\ hin.kind = "bytes"
    /\ Len(hin.bytes) >= 10
    /\ SubSeq(hin.bytes, 1, 10) = <<130, 127, 0, 0, 0, 0, 0, 0, 255, 255>>
    /\ rres.err = "DataFrameError"

(* C9: the Receiver fails with a DataFrameError on a control frame that    *)
(* announces 126 bytes or more, and the masking key and the payload bytes  *)
(* of the frame are still unread on the stream.                            *)
C9_OversizedControl ==
    (pc = "idle" /\ sent # NoPeerFrame /\ IsControl(sent) /\ sent.len >= 126)
    => /\ frames = FramesErr("DataFrameError")
       /\ result = MsgErr("DataFrameError")
       /\ LET unread == Len(sent.key) + Len(sent.data)
          IN wire = SubSeq(PeerBytes(sent), Len(PeerBytes(sent)) - unread + 1,
                           Len(PeerBytes(sent)))

C9_Witness ==
    /\ pc = "idle" /\ sent # NoPeerFrame
    /\ sent.opcode = 9 /\ sent.len = 65536 /\ sent.key # <<>>
    /\ Len(wire) = 7
    /\ result = MsgErr("DataFrameError")

(* C10 as stated: a control opcode without FIN is a DataFrameError.        *)
C10_DataFrameError ==
    (hin.kind = "bytes" /\ hpc = "read" /\ GivenOpcode >= 8 /\ ~GivenFin)
    => (~rres.ok /\ rres.err = "DataFrameError")

(* C10: read_header returns no header for a control opcode without FIN:    *)
(* the error is a ProtocolError when the length is given in the second     *)
(* byte alone (125 or less), and a DataFrameError when an extended length  *)
(* follows, which a control frame may not have.                            *)
C10_FragmentedControl ==
    (hin.kind = "bytes" /\ hpc = "read" /\ GivenOpcode >= 8 /\ ~GivenFin)
    => /\ ~rres.ok
       /\ rres.header = NoHeader
       /\ rres.err = IF GivenMarker <= 125 THEN "ProtocolError" ELSE "DataFrameError"

C10_Witness ==
    /\ hpc = "read" /\ hin.kind = "bytes"
    /\ GivenOpcode = 9 /\ ~GivenFin /\ GivenMarker = 125
    /\ rres.err = "ProtocolError"

----------------------------------------------------------------------------
(* What the properties say about reads that do not get a whole frame. *)

(* The frame the peer wrote last is masked where the Receiver expects it   *)
(* unmasked, or the other way round.                                       *)
WrongMask == sent # NoPeerFrame /\ sent.form # "torn" /\ (sent.key # <<>>) # (side = "server")

(* The last n bytes of the frame the peer wrote last. *)
SentTail(n) == SubSeq(PeerBytes(sent), Len(PeerBytes(sent)) - n + 1, Len(PeerBytes(sent)))

C14_ExactPayload ==
    (pc = "idle" /\ sent # NoPeerFrame /\ sent.form = "minimal" /\ sent.len > Len(sent.data))
    => ~frames.ok

(* C15: a read that meets the end of the stream inside a frame header, at  *)
(* its first byte or behind it, returns NoDataAvailable; a read that meets *)
(* a transport error of another kind returns an IoError of that kind.      *)
C15_Step ==
    ReadStep
    => /\ (closed /\ (wire = <<>> \/ (sent.form = "torn" /\ wire = PeerBytes(sent))))
            => (frames' = FramesErr("NoDataAvailable") /\ result' = MsgErr("NoDataAvailable"))
       /\ fault = "ConnectionReset"
            => (frames' = FramesErr("IoError(ConnectionReset)")
                /\ result' = MsgErr("IoError(ConnectionReset)"))
       /\ fault = "TimedOut"
            => (frames' = FramesErr("IoError(TimedOut)") /\ result' = MsgErr("IoError(TimedOut)"))

C15_EndOfStream == [][C15_Step]_vars

C15_Witness ==
    /\ pc = "idle" /\ closed /\ sent.form = "torn" /\ wire = <<>>
    /\ buffer # <<>>
    /\ result = MsgErr("NoDataAvailable")

(* The peer has written a whole Text message that is not UTF-8. *)
BadText ==
    /\ pc = "idle" /\ track /\ ValidMessage(frags) /\ sent = frags[Len(frags)]
    /\ frags[1].opcode = 1 /\ ~Utf8Valid(Concat(frags))

----------------------------------------------------------------------------
(* What the properties say about the frames the Sender wrote. *)

(* The length of the header before the masking key, for a payload of n bytes. *)
HeaderSize(n) == IF n <= 125 THEN 2 ELSE IF n <= 65535 THEN 4 ELSE 10

(* The written frame w carries the MASK bit and its four key bytes, the    *)
(* payload after them; or no MASK bit and the payload after the header.    *)
WrittenMasked(w) ==
    /\ w.bytes[2] >= 128
    /\ Len(w.key) = 4
    /\ SubSeq(w.bytes, HeaderSize(Len(w.frame.data)) + 1, HeaderSize(Len(w.frame.data)) + 4) = w.key
    /\ Len(w.bytes) = HeaderSize(Len(w.frame.data)) + 4 + Len(w.frame.data)
WrittenUnmasked(w) ==
    /\ w.bytes[2] < 128
    /\ Len(w.bytes) = HeaderSize(Len(w.frame.data)) + Len(w.frame.data)

WirePayload(w) == Drop(w.bytes, Len(w.bytes) - Len(w.frame.data))

(* C13: masking twice under one key gives the payload back, and a frame    *)
(* that was written under the key K is received with the payload the       *)
(* sender was given.                                                       *)
C13_MaskInvolution ==
    /\ \A i \in 1..Len(out) :
            out[i].key # <<>> =>
                /\ WirePayload(out[i]) = mask_data(out[i].key, out[i].frame.data)
                /\ mask_data(out[i].key, WirePayload(out[i])) = out[i].frame.data
    /\ (last.op = "receive" /\ last.got.ok) => last.got.frame = out[Len(out)].frame
    /\ (last.op = "receive" /\ (out[Len(out)].frame.opcode < 8 \/ out[Len(out)].frame.finished))
            => last.got.ok

C13_Witness ==
    /\ side = "client"
    /\ last.op = "receive"
    /\ last.got.ok
    /\ Len(last.got.frame.data) >= 5
    /\ WirePayload(out[Len(out)]) # last.got.frame.data

(* C17: send_message(m) writes exactly one frame, with FIN set, the        *)
(* reserved bits clear and the opcode of the variant of m (Text 1, Binary  *)
(* 2, Close 8, Ping 9, Pong 10), and returns Ok; when the send of the      *)
(* frame fails, nothing more is sent and that error is returned.           *)
C17_OneFramePerMessage ==
    last.op = "message" =>
        IF opcode_of(last.msg.kind) >= 8 /\ Len(into_iter(last.msg)[1].data) > 125
        THEN ~last.ok /\ last.err = "DataFrameError" /\ Len(out) = last.n
        ELSE /\ last.ok
             /\ Len(out) = last.n + 1
             /\ out[Len(out)].bytes[1] = FIN + opcode_of(last.msg.kind)

(* C18: no control frame is written fragmented or too long: every frame   *)
(* on the wire whose opcode is a control opcode has FIN set and a length   *)
(* of at most 125.                                                         *)
C18_ControlFramesWhole ==
    \A i \in 1..Len(out) :
        out[i].bytes[1] % 16 >= 8 =>
            /\ out[i].bytes[1] >= FIN
            /\ out[i].bytes[2] % 128 <= 125

(* The payload of the written frame w with the mask taken off. *)
PlainPayload(w) == IF w.key # <<>> THEN mask_data(w.key, WirePayload(w)) ELSE WirePayload(w)

(* C19: from_dataframes(into_iter(M)) is M, for every message M. *)
C19_RoundTrip == last.op = "roundtrip" => last.back = MsgOk(last.msg)

C19_Witness ==
    /\ last.op = "roundtrip"
    /\ last.back.ok
    /\ last.back.msg.kind = "Close"
    /\ last.back.msg.code = 1000
    /\ last.back.msg.data = <<111, 107>>

(* C20: no Close frame on the wire has the status code 1006 in front of    *)
(* its payload.                                                            *)
C20_No1006OnWire ==
    \A i \in 1..Len(out) :
        (out[i].bytes[1] % 16 = 8 /\ Len(PlainPayload(out[i])) >= 2) =>
            PlainPayload(out[i])[1] * 256 + PlainPayload(out[i])[2] # 1006

----------------------------------------------------------------------------
(* What the properties say about the handshake. *)

(* s3pPLMBiTxaQ9kYGzzhZRbK+xOo= *)
SampleAccept ==
    <<115, 51, 112, 80, 76, 77, 66, 105, 84, 120, 97, 81, 57, 107, 89, 71, 122, 122, 104, 90,
      82, 98, 75, 43, 120, 79, 111, 61>>
(* C/0nmHhBztSRGR1CwL6Tf4ZjwpY= *)
OtherAccept ==
    <<67, 47, 48, 110, 109, 72, 104, 66, 122, 116, 83, 82, 71, 82, 49, 67, 119, 76, 54, 84,
      102, 52, 90, 106, 119, 112, 89, 61>>

(* C28: the accept value of a response is base64(SHA1(K ++ GUID)) of the   *)
(* key K of the request it answers, whatever else the request holds; for   *)
(* the key dGhlIHNhbXBsZSBub25jZQ== it is s3pPLMBiTxaQ9kYGzzhZRbK+xOo=.    *)
C28_AcceptOfKey ==
    response.via = "handshake" =>
        /\ response.accept = to_base64(sha1(request.key \o MAGIC_GUID))
        /\ (request.key = SampleKey => response.accept = SampleAccept)
        /\ (request.key = OtherKey => response.accept = OtherAccept)
        /\ (request.key = ThirdKey => response.accept \notin {SampleAccept, OtherAccept})

C28_Witness ==
    /\ response.via = "handshake"
    /\ request.key = SampleKey
    /\ request.host = "b.example"
    /\ request.protocol.some
    /\ response.accept = SampleAccept

(* C29: the serialized response is the status line HTTP/1.1 101 Switching  *)
(* Protocols, the Upgrade, Connection and Sec-WebSocket-Accept headers in  *)
(* that order, the Sec-WebSocket-Protocol header if a protocol was chosen, *)
(* and an empty line.                                                      *)
C29_ResponseLayout ==
    stream # <<>> =>
        stream = <<StatusLine>>
                 \o serialize_header("Upgrade", <<Text("websocket")>>)
                 \o serialize_header("Connection", <<Text("Upgrade")>>)
                 \o serialize_header("Sec-WebSocket-Accept", <<Raw(response.accept)>>)
                 \o (IF response.protocol.some
                     THEN serialize_header("Sec-WebSocket-Protocol",
                                           write_protocols(response.protocol.list, 1))
                     ELSE <<>>)
                 \o <<Text("\r\n")>>

(* The protocols a request offered. *)
Offered(req) == {req.protocol.list[i] : i \in 1..Len(req.protocol.list)}

(* C30: the response names at most one subprotocol, and only one that the  *)
(* request offered.                                                        *)
C30_ProtocolOffered ==
    response.protocol.some =>
        /\ Len(response.protocol.list) <= 1
        /\ \A i \in 1..Len(response.protocol.list) :
                response.protocol.list[i] \in Offered(request)

----------------------------------------------------------------------------
(* Claims about the session (specification SpecSession). *)

(* A step in which a receive call reads or returns. *)
ReceiveStep == delivered' # delivered \/ pc' # pc \/ buffer' # buffer \/ Len(wire') < Len(wire)

(* A step in which send_dataframe returns. *)
SendStep == last' # last \/ out' # out

(* C21: no receive operation writes to the outbound direction; a Ping     *)
(* that arrives is returned to the application and no Pong goes out.       *)
C21_ReceiveNeverWrites ==
    [][(ReceiveStep /\ ~SendStep => out' = out)
       /\ (delivered' # delivered => out' = out /\ sends' = sends)
       /\ Len(out) = Len(sends)]_vars
C21_Witness ==
    \E i \in DOMAIN delivered :
        /\ delivered[i].ok
        /\ delivered[i].frame.opcode = 9 \/ delivered[i].msg.kind = "Ping"
        /\ out = <<>>

CloseReceived ==
    \E i \in DOMAIN delivered :
        delivered[i].ok /\ (delivered[i].frame.opcode = 8 \/ delivered[i].msg.kind = "Close")

(* C22: once a Close has been received the local side writes at most one   *)
(* Close frame in the session.                                             *)
C22_OneClose ==
    CloseReceived => Cardinality({i \in DOMAIN out : out[i].frame.opcode = 8}) <= 1

(* The successful returns of the receive calls. *)
Got == SelectSeq(delivered, LAMBDA d : d.ok)

(* C23: the frames successive successful recv_dataframe calls return are   *)
(* a prefix of the frames the peer wrote (every frame but the last written *)
(* arrived whole).                                                         *)
C23_InOrder ==
    (OnlyOp("dataframe") /\ \A i \in 1..(Len(peer_wrote) - 1) :
                                Len(peer_wrote[i].data) = peer_wrote[i].len)
    => /\ Len(Got) <= Len(peer_wrote)
       /\ \A i \in DOMAIN Got :
            /\ Got[i].frame.finished = (peer_wrote[i].flags >= FIN)
            /\ Got[i].frame.opcode = peer_wrote[i].opcode
            /\ Got[i].frame.data = peer_wrote[i].data
            /\ Len(Got[i].frame.data) = peer_wrote[i].len

(* What a Receiver with nothing beside it returns to successive            *)
(* recv_message calls over the bytes: recv_message_dataframes read by      *)
(* read, from the buffer buf, until the bytes run out.                     *)
RECURSIVE ReceiverAlone(_, _, _, _)
ReceiverAlone(bytes, buf, s, acc) ==
    IF Len(acc) >= MaxCalls THEN acc
    ELSE LET r == recv_dataframe_on(bytes, FALSE, "", s) IN
         IF r.err = "Pending" THEN acc
         ELSE LET st == IF buf = <<>> THEN recv_first(buf, r) ELSE recv_next(buf, r) IN
              IF st.done
              THEN ReceiverAlone(r.rest, st.buffer, s, Append(acc, recv_message(st.ret)))
              ELSE ReceiverAlone(r.rest, st.buffer, s, acc)

RECURSIVE BytesOf(_, _)
BytesOf(fs, i) == IF i > Len(fs) THEN <<>> ELSE PeerBytes(fs[i]) \o BytesOf(fs, i + 1)

AloneGot(alone) ==
    /\ Len(delivered) <= Len(alone)
    /\ \A i \in DOMAIN delivered :
         /\ delivered[i].ok = alone[i].ok
         /\ delivered[i].err = alone[i].err
         /\ delivered[i].msg = alone[i].msg

(* C24: for every interleaving of the two halves the outbound byte stream  *)
(* is the frames sent, each as write_to writes it, in the order sent, and  *)
(* the messages received are those a Receiver alone returns over the       *)
(* bytes of the peer.                                                      *)
C24_HalvesIndependent ==
    /\ Len(out) = Len(sends)
    /\ \A i \in DOMAIN out :
         out[i].bytes = sender_send_dataframe(side, sends[i].frame, sends[i].key).bytes
    /\ (OnlyOp("message") /\ ~closed /\ fault = "")
       => AloneGot(ReceiverAlone(BytesOf(peer_wrote, 1), <<>>, side, <<>>))
C24_Witness ==
    /\ Len(delivered) = 1 /\ delivered[1].op = "message" /\ delivered[1].ok
    /\ delivered[1].msg.kind = "Binary"
    /\ Len(out) = 2 /\ ~closed

(* C25: after a direction is shut down every call on it returns an error:  *)
(* no receive returns a frame or a message after the read shutdown, no     *)
(* send succeeds after the write shutdown.                                 *)
C25_AfterShutdown ==
    [][/\ (shut.read /\ delivered' # delivered) => ~delivered'[Len(delivered')].ok
       /\ (shut.write /\ SendStep) => (out' = out /\ ~last'.ok)]_vars

(* What a shutdown call may change of the two directions. *)
OnlyOutbound(sh, sh2) == sh2.write /\ sh2.read = sh.read
OnlyInbound(sh, sh2) == sh2.read /\ sh2.write = sh.write
BothWays(sh, sh2) == sh2.read /\ sh2.write

(* C26: Sender::shutdown and Client::shutdown_sender shut the outbound     *)
(* direction alone, Receiver::shutdown and Client::shutdown_receiver the   *)
(* inbound alone, shutdown_all of either half and Client::shutdown both;   *)
(* a send goes through while the outbound direction is open, and a         *)
(* shutdown takes nothing of what was written or returned.                 *)
C26_PerDirection ==
    [][/\ OnlyOutbound(shut, stream_shutdown(ShutdownHow("Sender::shutdown"), shut))
       /\ OnlyOutbound(shut, stream_shutdown(ShutdownHow("Client::shutdown_sender"), shut))
       /\ OnlyInbound(shut, stream_shutdown(ShutdownHow("Receiver::shutdown"), shut))
       /\ OnlyInbound(shut, stream_shutdown(ShutdownHow("Client::shutdown_receiver"), shut))
       /\ BothWays(shut, stream_shutdown(ShutdownHow("Sender::shutdown_all"), shut))
       /\ BothWays(shut, stream_shutdown(ShutdownHow("Receiver::shutdown_all"), shut))
       /\ BothWays(shut, stream_shutdown(ShutdownHow("Client::shutdown"), shut))
       /\ shut' # shut
          => /\ \E call \in ShutdownCalls : shut' = stream_shutdown(ShutdownHow(call), shut)
             /\ UNCHANGED <<out, sends, last, delivered, buffer, pc>>
             /\ ~shut'.read => UNCHANGED <<wire, closed>>
       /\ (SendStep /\ ~shut.write) => (last'.ok /\ Len(out') = Len(out) + 1)]_vars
C26_Witness == shut.read /\ ~shut.write /\ last.ok /\ Len(out) = MaxSends

(* C27: next on incoming_dataframes and incoming_messages returns          *)
(* Some(result) at every call.                                             *)
C27_IteratorsNeverEnd ==
    \A i \in DOMAIN delivered :
        delivered[i].op \in {"incoming_dataframes", "incoming_messages"}
        => delivered[i].err # "panic"

----------------------------------------------------------------------------
(* Claims about the reassembly buffer (specification Spec). *)

(* The buffer holds the start of one fragmented message. *)
BufferShape(buf) ==
    \/ buf = <<>>
    \/ /\ buf[1].opcode # 0
       /\ \A i \in 2..Len(buf) : buf[i].opcode = 0
       /\ \A i \in DOMAIN buf : ~buf[i].finished

(* A frame vector recv_message_dataframes may return. *)
OneControl(fs) == Len(fs) = 1 /\ fs[1].opcode >= 8
DataSequence(fs) ==
    /\ fs # <<>>
    /\ fs[1].opcode \in 1..7
    /\ \A i \in 2..Len(fs) : fs[i].opcode = 0
    /\ \A i \in DOMAIN fs : fs[i].finished = (i = Len(fs))

(* C38: between calls the buffer is empty or holds a first frame that is   *)
(* no continuation followed by continuations only, none of them final;     *)
(* after a complete data message is returned the buffer is empty; a        *)
(* returned vector is one control frame or a data sequence whose last      *)
(* frame alone is final.                                                   *)
C38_BufferShape ==
    /\ BufferShape(buffer)
    /\ (pc = "idle" /\ frames.ok)
       => /\ OneControl(frames.frames) \/ DataSequence(frames.frames)
          /\ DataSequence(frames.frames) => buffer = <<>>
C38_Witness ==
    /\ pc = "idle" /\ frames.ok /\ OneControl(frames.frames)
    /\ Len(buffer) = 2

(* recv_message_dataframes returned a frame sequence, and its conversion   *)
(* into a message failed.                                                  *)
ConversionFailed == pc = "idle" /\ frames.ok /\ ~result.ok

----------------------------------------------------------------------------
(* Claims about the Receiver across errors (specification SpecRecover). *)

IsPrefix(a, b) == Len(a) <= Len(b) /\ SubSeq(b, 1, Len(a)) = a

(* The j-th entry is the first data message returned after the i-th. *)
FirstDataAfter(i, j) ==
    /\ i < j
    /\ delivered[j].op = "recv_message" /\ delivered[j].ok /\ DataSequence(delivered[j].frames)
    /\ \A k \in (i + 1)..(j - 1) : ~(delivered[k].ok /\ DataSequence(delivered[k].frames))

(* C35: after recv_message has returned a ProtocolError no later call      *)
(* returns a data message that contains frames received before the error.  *)
C35_ProtocolErrorFatal ==
    \A i, j \in DOMAIN delivered :
        (delivered[i].err = "ProtocolError" /\ delivered[i].held # <<>> /\ FirstDataAfter(i, j))
        => ~IsPrefix(delivered[i].held, delivered[j].frames)

IoFailure(e) == e \in {"NoDataAvailable", "IoError(TimedOut)", "IoError(ConnectionReset)", "IoError"}

(* C40: an I/O error or NoDataAvailable leaves the buffer as it was, empty *)
(* when it was empty; the call that later reads the last continuation      *)
(* returns the whole message, the fragments held at the error first.       *)
C40_FragmentsKeptAcrossIoError ==
    [][/\ (pc # "idle" /\ pc' = "idle" /\ IoFailure(frames'.err)) => buffer' = buffer
       /\ \A i, j \in DOMAIN delivered' :
            (IoFailure(delivered'[i].err) /\ i < j /\ delivered'[j].op = "recv_message"
             /\ delivered'[j].ok /\ DataSequence(delivered'[j].frames)
             /\ \A k \in (i + 1)..(j - 1) :
                    ~(delivered'[k].ok /\ DataSequence(delivered'[k].frames)))
            => /\ IsPrefix(delivered'[i].held, delivered'[j].frames)
               /\ delivered'[j].held = <<>>]_vars
C40_Witness ==
    /\ Len(delivered) = 2
    /\ delivered[1].err = "IoError(TimedOut)" /\ Len(delivered[1].held) = 1
    /\ delivered[2].ok /\ Len(delivered[2].frames) = 2
    /\ IsPrefix(delivered[1].held, delivered[2].frames)

(* The Client built from the halves of client is client. *)
Rebuilt(client) == Client_new(split(client)[1], split(client)[2]) = client

(* C37: Client::new of the halves of split gives the Client that was       *)
(* split: the Sender, the reader and the reassembly buffer are what they   *)
(* were, and a message whose first fragments were read before is completed *)
(* by the reads made after.                                                *)
C37_SplitNewInverse ==
    [][/\ (Noted_split' /\ ~Noted_split)
          => /\ buffer' = buffer /\ wire' = wire /\ out' = out /\ pc' = pc
             /\ Rebuilt([sender |-> [inner |-> out],
                          receiver |-> [inner |-> wire, buffer |-> buffer]])
       /\ \A i, j \in DOMAIN delivered' :
            (delivered'[i].op = "split" /\ FirstDataAfter(i, j)')
            => IsPrefix(delivered'[i].held, delivered'[j].frames)]_vars
C37_Witness ==
    \E i \in DOMAIN delivered :
        /\ i < Len(delivered)
        /\ delivered[i].op = "split" /\ delivered[i].held # <<>>
        /\ delivered[i + 1].ok /\ Len(delivered[i + 1].frames) = Len(delivered[i].held) + 1
        /\ IsPrefix(delivered[i].held, delivered[i + 1].frames)

----------------------------------------------------------------------------
(* The server connection: what is on the stream and what became of it. *)

Wrote(t) == \E i \in 1..Len(stream) : stream[i] = t

C32_ClientOnlyAfter101 ==
    /\ conn.client =>
          /\ conn.status = "SwitchingProtocols"
          /\ Wrote(StatusLine) /\ Wrote(Text("Sec-WebSocket-Accept"))
    /\ sends # <<>> => conn.client
    /\ conn.at = "failed" => ~conn.client /\ sends = <<>>

----------------------------------------------------------------------------
(* The frames read after the upgrade against the frames the server wrote. *)

----------------------------------------------------------------------------
(* The Sec-WebSocket-Extensions header: the text against what it parsed to. *)

Count(s, c) == Cardinality({i \in 1..Len(s) : s[i] = c})

(* A text as the formatting writes it: one space after each ";" and each   *)
(* ",", and no other space.                                                *)
Canonical(raw) ==
    /\ Count(raw, " ") = Count(raw, ";") + Count(raw, ",")
    /\ \A i \in 1..Len(raw) : raw[i] \in {";", ","} => (i < Len(raw) /\ raw[i + 1] = " ")

ParametersOf(list) == {list[i].params[j] : <<i, j>> \in
                          {<<i, j>> \in (1..Len(list)) \X (1..3) : j <= Len(list[i].params)}}

(* C33: parsing a Sec-WebSocket-Extensions value and formatting the result *)
(* gives the same text; a parameter name=value is kept as name and         *)
(* Some(value), a bare parameter as its name and None.                     *)
C33_ParseFormatRoundTrip ==
    /\ (exts.at = "formatted" /\ Canonical(exts.raw)) => exts.text = exts.raw
    /\ (exts.at \in {"parsed", "formatted"} /\ ~exts.panic) =>
          /\ \A p \in ParametersOf(exts.parsed) :
                /\ find(p.name, "=", 1) = 0
                /\ p.value.some => (p.value.list # <<>> /\ find(p.value.list, "=", 1) = 0)
          /\ Cardinality({p \in ParametersOf(exts.parsed) : p.value.some}) > 0
                <=> Count(exts.raw, "=") > 0

WindowBits == {ToString(n) : n \in 8..15}
SaysDeflate(raw) == raw # <<>> /\ raw[1] = "permessage-deflate" /\ find(raw, ",", 1) = 0
Said(raw, word) == find(raw, word, 1) # 0
ValueOf(raw, word) == raw[find(raw, word, 1) + 2]
BitsInRange(raw) ==
    \A word \in {"server_max_window_bits", "client_max_window_bits"} :
        Said(raw, word) => ValueOf(raw, word) \in WindowBits
BitsAre(raw, word, setting) ==
    IF Said(raw, word) THEN setting.some /\ ToString(setting.list) = ValueOf(raw, word)
    ELSE ~setting.some

(* C34: "permessage-deflate" with any of its four parameters parses to     *)
(* Extension::Deflate with the settings the text gives; window bits        *)
(* outside 8..15 are rejected; a Deflate(config) that is formatted and     *)
(* parsed again is Deflate(config).                                        *)
C34_DeflateParsed ==
    (exts.at = "parsed" /\ SaysDeflate(exts.raw)) =>
        IF ~BitsInRange(exts.raw) THEN ~exts.panic /\ exts.parsed = <<>>
        ELSE /\ ~exts.panic
             /\ Len(exts.parsed) = 1
             /\ exts.parsed[1].kind = "Deflate"
             /\ exts.parsed[1].config.server_no_context_takeover.some
                   <=> Said(exts.raw, "server_no_context_takeover")
             /\ exts.parsed[1].config.client_no_context_takeover.some
                   <=> Said(exts.raw, "client_no_context_takeover")
             /\ BitsAre(exts.raw, "server_max_window_bits",
                        exts.parsed[1].config.server_max_window_bits)
             /\ BitsAre(exts.raw, "client_max_window_bits",
                        exts.parsed[1].config.client_max_window_bits)
             /\ exts.made => exts.parsed = <<Deflate(exts.config)>>

====
